---- MODULE Spec2Model ----
(***************************************************************************)
(* PaintWiser Growth Worker: the quota gate, the market-analysis pipeline, *)
(* the plan-derivation stage and the persistence calls they make, as a     *)
(* state machine translated from the TypeScript sources.                   *)
(*                                                                         *)
(* Money is in cents, the market factor in thousandths.  A value that may  *)
(* be null/undefined in the source is a sequence of length 0 (absent) or 1 *)
(* (present).                                                              *)
(***************************************************************************)
EXTENDS Integers, Sequences, FiniteSets, TLC

VARIABLES
    devBypass,      \* process.env.DEV_BYPASS_AUTH === 'true'
    keywordSource,  \* how main() wires the MarketDataProvider
    usageLog,       \* table growth_usage_log
    analyses,       \* table growth_market_analyses
    plans,          \* table growth_campaign_plans
    marketFactor,   \* EstimateMarketDataProvider.marketFactor
    rq,             \* the HTTP requests in flight, by slot
    probe,          \* the last calls made on the EstimateMarketDataProvider
    keywordPlanner  \* the GoogleAdsKeywordPlannerProvider: its cache and its calls

vars == <<devBypass, keywordSource, usageLog, analyses, plans, marketFactor, rq, probe,
          keywordPlanner>>

None == <<>>
Some(v) == <<v>>

\* JavaScript's  x || d  for a value that may be undefined
OrElse(opt, d) == IF opt = None THEN d ELSE opt[1]

\* Math.round(num / den) for den > 0: the nearest integer, halves upwards
RoundDiv(num, den) == (2 * num + den) \div (2 * den)

Max(a, b) == IF a >= b THEN a ELSE b

RECURSIVE SumSeq(_)
SumSeq(s) == IF s = <<>> THEN 0 ELSE Head(s) + SumSeq(Tail(s))


(***************************************************************************)
(* Accounts, users and the request slots.                                  *)
(***************************************************************************)
Slots == {1}

AuthContexts ==
    { [accountId |-> "acct1", userId |-> "user1"],
      [accountId |-> "acct2", userId |-> "user2"] }

\* createAuthMiddleware's DEV BYPASS branch: DEV_ACCOUNT_ID / DEV_USER_ID
DevAuthContext == [accountId |-> "acct1", userId |-> "user1"]

NoAuth == [accountId |-> "", userId |-> ""]

(***************************************************************************)
(* The usage ledger and the quota gate (db.ts, middleware/usage.ts).       *)
(***************************************************************************)
DEFAULT_MONTHLY_QUOTA == 10

DEV_QUOTA == 999

UsageEvent(auth, eventType) ==
    [account_id |-> auth.accountId, user_id |-> auth.userId,
     event_type |-> eventType, created_at |-> "this_month"]

\* a count that takes market analyses only
CountUsageAnalysesOnly(log, accountId) ==
    Cardinality({ i \in DOMAIN log :
                    /\ log[i].account_id = accountId
                    /\ log[i].created_at = "this_month"
                    /\ log[i].event_type = "market_analysis" })

\* .eq('account_id', accountId).gte('created_at', startOfMonth), count: 'exact'
CountUsage(log, accountId) ==
    Cardinality({ i \in DOMAIN log :
                    /\ log[i].account_id = accountId
                    /\ log[i].created_at = "this_month" })

\* getUsageQuota: `read` is what the ledger query did: "ok" or "error"
getUsageQuota(log, accountId, read) ==
    IF read = "error"
    THEN [used |-> DEFAULT_MONTHLY_QUOTA, limit |-> DEFAULT_MONTHLY_QUOTA,
          remaining |-> 0, periodStart |-> "startOfMonth", periodEnd |-> ""]
    ELSE LET used == CountUsage(log, accountId)
         IN [used |-> used, limit |-> DEFAULT_MONTHLY_QUOTA,
             remaining |-> Max(0, DEFAULT_MONTHLY_QUOTA - used),
             periodStart |-> "startOfMonth", periodEnd |-> "endOfMonth"]

DevBypassQuota ==
    [used |-> 0, limit |-> DEV_QUOTA, remaining |-> DEV_QUOTA,
     periodStart |-> "", periodEnd |-> ""]

\* if (quota.remaining <= 0) { res.status(429)...; return; }
\* a gate that lets an exhausted quota through
QuotaExceededNever(quota) == quota.remaining < 0

QuotaExceeded(quota) == quota.remaining <= 0

QuotaExceededBody(quota) ==
    [error |-> "Monthly analysis quota exceeded",
     quota |-> [used |-> quota.used, limit |-> quota.limit,
                resetsAt |-> quota.periodEnd]]


(***************************************************************************)
(* Request bodies.  The routers validate them (routes/analysis.ts,         *)
(* routes/plan.ts); an absent string is "", an absent number 0.            *)
(***************************************************************************)
Routes ==
    { "POST /api/analyze", "GET /api/analyze/:id",
      "POST /api/plan", "GET /api/plan/:id", "GET /api/quota" }

AnalyzeBodies ==
    { [zipCode |-> "92101", services |-> <<"interior painting">>,
       targetCities |-> <<>>, websiteUrl |-> None],
      [zipCode |-> "92101", services |-> <<"interior painting">>,
       targetCities |-> <<"San Diego">>, websiteUrl |-> Some("https://painter.example")],
      [zipCode |-> "", services |-> <<>>,
       targetCities |-> <<>>, websiteUrl |-> None] }

\* ids the callers ask for: two rows that exist and one that does not
RequestedIds == {1, 2, 3}

PlanBodies ==
    { [analysisId |-> id, selectedServices |-> <<"interior painting">>,
       selectedCities |-> <<"San Diego">>, dailyBudget |-> 50, hardCap |-> 1200,
       phoneNumber |-> "555-0100"] : id \in RequestedIds }
    \cup
    { [analysisId |-> 0, selectedServices |-> <<"interior painting">>,
       selectedCities |-> <<"San Diego">>, dailyBudget |-> 50, hardCap |-> 1200,
       phoneNumber |-> ""],
      [analysisId |-> 1, selectedServices |-> <<"interior painting">>,
       selectedCities |-> <<"San Diego">>, dailyBudget |-> 0, hardCap |-> 1200,
       phoneNumber |-> ""] }

GetBodies == { [id |-> id] : id \in RequestedIds }

NoBody == [none |-> TRUE]

BodiesFor(route) ==
    CASE route = "POST /api/analyze" -> AnalyzeBodies
      [] route = "POST /api/plan" -> PlanBodies
      [] route \in {"GET /api/analyze/:id", "GET /api/plan/:id"} -> GetBodies
      [] OTHER -> {NoBody}

(***************************************************************************)
(* One request: its position, what the middlewares attached to it, the     *)
(* locals of the service call it is in, and its response.  `work` records  *)
(* the expensive operations begun for it and `llmCalls` the arguments of   *)
(* each reasoning-engine call.                                             *)
(***************************************************************************)
ParallelBranches == {"competitors", "serp", "crm", "website"}

\* a branch promise: its state, the value it settled with, the value analyze holds
Pending == [st |-> "pending", raw |-> <<>>, val |-> <<>>]

IdleRequest ==
    [pc |-> "idle", route |-> "", auth |-> NoAuth, body |-> NoBody,
     quotaRead |-> "none", quota |-> None,
     branch |-> [b \in ParallelBranches |-> [st |-> "idle", raw |-> <<>>, val |-> <<>>]],
     plannerOutcome |-> None, kwSt |-> "idle", kwRaw |-> <<>>, keywords |-> <<>>,
     llmCalls |-> <<>>, llmOutput |-> None,
     source |-> None, result |-> None, savedId |-> 0, logged |-> <<>>,
     work |-> {}, response |-> None]

Respond(q, status, body) ==
    [q EXCEPT !.pc = "done", !.response = Some([status |-> status, body |-> body])]


(***************************************************************************)
(* Market Estimate Interpolator (providers/keyword-estimates.ts).          *)
(* Ranges are in dollars and searches; results in cents and searches.      *)
(***************************************************************************)
SERVICE_ESTIMATES ==
    [ exterior |->
        [cpcRange |-> <<12, 32>>, volumeRange |-> <<400, 2400>>, competition |-> "high",
         keywords |-> <<"exterior painting", "exterior house painting",
                        "exterior painter near me", "outside house painting",
                        "home exterior painting", "house painting">>],
      interior |->
        [cpcRange |-> <<8, 22>>, volumeRange |-> <<300, 1800>>, competition |-> "medium",
         keywords |-> <<"interior painting", "interior house painting",
                        "interior painter near me", "room painting",
                        "indoor painting", "house painting interior">>],
      cabinet |->
        [cpcRange |-> <<6, 18>>, volumeRange |-> <<120, 700>>, competition |-> "low",
         keywords |-> <<"cabinet painting", "kitchen cabinet painting",
                        "cabinet refinishing", "cabinet painter near me",
                        "paint kitchen cabinets">>],
      commercial |->
        [cpcRange |-> <<10, 28>>, volumeRange |-> <<80, 500>>, competition |-> "medium",
         keywords |-> <<"commercial painting", "commercial painter", "office painting",
                        "business painting", "commercial painting contractor">>],
      deck |->
        [cpcRange |-> <<5, 15>>, volumeRange |-> <<100, 600>>, competition |-> "low",
         keywords |-> <<"deck staining", "deck refinishing", "deck stain near me",
                        "wood deck staining", "deck restoration">>] ]

\* findServiceEstimates on service.toLowerCase(): a direct match, else the first
\* entry whose key contains, or is contained in, the name; None when there is none.
\* Tabulated for the service names the requests of this model use.
findServiceEstimates(service) ==
    CASE service \in {"interior painting", "Interior Painting"} -> Some(SERVICE_ESTIMATES.interior)
      [] service = "exterior painting" -> Some(SERVICE_ESTIMATES.exterior)
      [] service = "cabinet painting" -> Some(SERVICE_ESTIMATES.cabinet)
      [] service = "commercial painting" -> Some(SERVICE_ESTIMATES.commercial)
      [] service = "deck staining" -> Some(SERVICE_ESTIMATES.deck)
      [] service = "painting" -> Some(SERVICE_ESTIMATES.exterior)
      [] OTHER -> None

\* an interpolation that runs from hi down to lo
interpolateDown(range, factor) ==
    RoundDiv((range[2] * 1000 - (range[2] - range[1]) * factor) * 100, 1000)

\* interpolate(range, factor), times 100: Math.round((lo + (hi - lo) * f) * 100)
interpolate(range, factor) ==
    RoundDiv((range[1] * 1000 + (range[2] - range[1]) * factor) * 100, 1000)

\* A keyword is the sequence of the phrases the source joins with a space.
\* The city-modified variants of one keyword of a template:
RECURSIVE CityKeywords(_, _, _, _, _, _)
CityKeywords(keyword, cities, service, competition, cityVolume, cityCpc) ==
    IF cities = <<>> THEN <<>>
    ELSE << [keyword |-> keyword \o <<Head(cities)>>, monthlySearches |-> cityVolume,
             avgCpc |-> cityCpc, competition |-> competition, service |-> service,
             city |-> Some(Head(cities))] >>
         \o CityKeywords(keyword, Tail(cities), service, competition, cityVolume, cityCpc)

RECURSIVE TemplateKeywords(_, _, _, _, _, _, _, _)
TemplateKeywords(kws, cities, service, competition, baseVolume, baseCpc, cityVolume, cityCpc) ==
    IF kws = <<>> THEN <<>>
    ELSE << [keyword |-> Head(kws), monthlySearches |-> baseVolume, avgCpc |-> baseCpc,
             competition |-> competition, service |-> service, city |-> None] >>
         \o CityKeywords(Head(kws), cities, service, competition, cityVolume, cityCpc)
         \o TemplateKeywords(Tail(kws), cities, service, competition,
                             baseVolume, baseCpc, cityVolume, cityCpc)

\* generateGenericEstimates: $8-$20, 80-400 searches, city fraction 0.25
generateGenericEstimates(service, cities, factor) ==
    LET baseCpc == interpolate(<<8, 20>>, factor)
        baseVolume == RoundDiv(interpolate(<<80, 400>>, factor), 100)
    IN TemplateKeywords(<< <<service>>, <<service, "near me">>, <<service, "contractor">>,
                           <<service, "services">> >>,
                        cities, service, "medium", baseVolume, baseCpc,
                        RoundDiv(baseVolume * 25, 100), RoundDiv(baseCpc * 115, 100))

\* the body of getKeywordData's loop for one service
EstimateService(service, cities, factor) ==
    LET estimates == findServiceEstimates(service)
    IN IF estimates = None
       THEN generateGenericEstimates(service, cities, factor)
       ELSE LET e == estimates[1]
                baseCpc == interpolate(e.cpcRange, factor)
                baseVolume == RoundDiv(interpolate(e.volumeRange, factor), 100)
            IN TemplateKeywords([i \in DOMAIN e.keywords |-> <<e.keywords[i]>>],
                                cities, service, e.competition,
                                baseVolume, baseCpc,
                                RoundDiv(baseVolume * (200000 + 150 * factor), 1000000),
                                RoundDiv(baseCpc * 115, 100))

\* EstimateMarketDataProvider.getKeywordData(services, cities, _state) at `factor`
RECURSIVE EstimateKeywordData(_, _, _)
EstimateKeywordData(services, cities, factor) ==
    IF services = <<>> THEN <<>>
    ELSE EstimateService(Head(services), cities, factor)
         \o EstimateKeywordData(Tail(services), cities, factor)

\* private marketFactor = 0.5
DEFAULT_MARKET_FACTOR == 500

MAX_COMPETITORS_SIGNAL == 20
MAX_AVG_REVIEWS_SIGNAL == 400
\* COMPETITOR_COUNT_WEIGHT = 0.35 and REVIEW_DENSITY_WEIGHT = 0.65, in hundredths
COMPETITOR_COUNT_WEIGHT == 35
REVIEW_DENSITY_WEIGHT == 65

Min(a, b) == IF a <= b THEN a ELSE b

\* calculateMarketFactor(competitorCount, avgReviewCount), in thousandths:
\*   countFactor  = Math.min(competitorCount / 20, 1.0)
\*   reviewFactor = Math.min(avgReviewCount / 400, 1.0)
\*   Math.round((countFactor * 0.35 + reviewFactor * 0.65) * 100) / 100
\* Math.round rounds halves up, as RoundDiv does with floor division.
calculateMarketFactor(competitorCount, avgReviewCount) ==
    LET countNum == Min(competitorCount, MAX_COMPETITORS_SIGNAL)
        reviewNum == Min(avgReviewCount, MAX_AVG_REVIEWS_SIGNAL)
    IN 10 * RoundDiv(COMPETITOR_COUNT_WEIGHT * countNum * MAX_AVG_REVIEWS_SIGNAL
                       + REVIEW_DENSITY_WEIGHT * reviewNum * MAX_COMPETITORS_SIGNAL,
                     MAX_COMPETITORS_SIGNAL * MAX_AVG_REVIEWS_SIGNAL)

\* setMarketFactor(factor): this.marketFactor = Math.max(0, Math.min(1, factor))
setMarketFactor(factor) == Max(0, Min(1000, factor))

\* a getKeywordData that leaves a raised factor behind
EstimatorGetKeywordDataDrift(factor, services, cities) ==
    [ keywords |-> EstimateKeywordData(services, cities, factor),
      marketFactor |-> Min(1000, factor + 100) ]

\* EstimateMarketDataProvider.getKeywordData as a method: the list returned and
\* the instance's marketFactor afterwards
EstimatorGetKeywordData(factor, services, cities) ==
    [ keywords |-> EstimateKeywordData(services, cities, factor),
      marketFactor |-> factor ]


(***************************************************************************)
(* The HTTP pipeline: auth middleware, usage middleware, route handler.    *)
(***************************************************************************)
GatedRoutes ==
    { "POST /api/analyze", "GET /api/analyze/:id", "POST /api/plan", "GET /api/plan/:id" }

\* createAuthMiddleware: with DEV_BYPASS_AUTH every caller is the dev account;
\* otherwise a request either carries a verified identity or is answered 401.
AuthOutcomes ==
    IF devBypass THEN {DevAuthContext} ELSE AuthContexts \cup {NoAuth}

Receive(r) ==
    /\ rq[r].pc = "idle"
    /\ \E route \in Routes, auth \in AuthOutcomes :
         \E body \in BodiesFor(route) :
           LET q == [rq[r] EXCEPT !.route = route, !.body = body, !.auth = auth]
           IN rq' = [rq EXCEPT ![r] =
                 IF auth = NoAuth
                 THEN Respond(q, 401, [error |-> "Invalid or missing API key"])
                 ELSE [q EXCEPT !.pc = IF route \in GatedRoutes THEN "usage" ELSE "handler"]]
    /\ UNCHANGED <<devBypass, keywordSource, usageLog, analyses, plans, marketFactor, probe, keywordPlanner>>

\* what the call `await getUsageQuota(accountId)` can do
LedgerReads == {"ok", "error", "throw"}

\* the catch block of the usage middleware: the request continues without a quota
OnQuotaCheckThrown(q) == [q EXCEPT !.pc = "handler"]

\* a gate that answers 429 and still calls next()
CheckQuotaNoReturn(q, log, read) ==
    IF read = "throw"
    THEN OnQuotaCheckThrown([q EXCEPT !.quotaRead = read])
    ELSE LET quota == getUsageQuota(log, q.auth.accountId, read)
             q1 == [q EXCEPT !.quotaRead = read, !.quota = Some(quota)]
         IN IF QuotaExceeded(quota)
            THEN [Respond(q1, 429, QuotaExceededBody(quota)) EXCEPT !.pc = "handler"]
            ELSE [q1 EXCEPT !.pc = "handler"]

\* the body of the usage middleware after the dev-bypass test, for one outcome
\* of the ledger read
CheckQuota(q, log, read) ==
    IF read = "throw"
    THEN OnQuotaCheckThrown([q EXCEPT !.quotaRead = read])
    ELSE LET quota == getUsageQuota(log, q.auth.accountId, read)
             q1 == [q EXCEPT !.quotaRead = read, !.quota = Some(quota)]
         IN IF QuotaExceeded(quota)
            THEN Respond(q1, 429, QuotaExceededBody(quota))
            ELSE [q1 EXCEPT !.pc = "handler"]

UsageMiddleware(r) ==
    /\ rq[r].pc = "usage"
    /\ IF devBypass
       THEN rq' = [rq EXCEPT ![r] = [rq[r] EXCEPT !.quotaRead = "bypass",
                                                  !.quota = Some(DevBypassQuota),
                                                  !.pc = "handler"]]
       ELSE \E read \in LedgerReads :
              rq' = [rq EXCEPT ![r] = CheckQuota(rq[r], usageLog, read)]
    /\ UNCHANGED <<devBypass, keywordSource, usageLog, analyses, plans, marketFactor, probe, keywordPlanner>>

\* GET /api/quota
QuotaRoute(r) ==
    /\ rq[r].pc = "handler"
    /\ rq[r].route = "GET /api/quota"
    /\ \E read \in LedgerReads :
         rq' = [rq EXCEPT ![r] =
            IF read = "throw"
            THEN Respond(rq[r], 500, [error |-> "Failed to check quota"])
            ELSE Respond(rq[r], 200,
                         [success |-> TRUE,
                          data |-> getUsageQuota(usageLog, rq[r].auth.accountId, read)])]
    /\ UNCHANGED <<devBypass, keywordSource, usageLog, analyses, plans, marketFactor, probe, keywordPlanner>>


(***************************************************************************)
(* What the outside world can answer.  A settled promise is                *)
(* [st |-> "fulfilled" | "rejected", val |-> ...].                         *)
(***************************************************************************)
Fulfilled(v) == [st |-> "fulfilled", val |-> v]
Rejected == [st |-> "rejected", val |-> <<>>]

CompetitorLists ==
    { <<>>, << [name |-> "Acme Painting", rating |-> 47, reviewCount |-> 120] >> }

SerpLists ==
    { <<>>, << [query |-> "interior painting 92101", organicCount |-> 8] >> }

\* getCrmSnapshot returns null when the account has no quotes or the query errs
CrmSnapshots ==
    { None, Some([totalQuotes |-> 12, wonQuotes |-> 5, totalRevenue |-> 2150000]) }

\* what fetch(url, { signal }) can do inside analyzeWebsite: answer the page,
\* answer a status that is not ok, reject, or be aborted by the 10 s timer
WebsiteFetches == {"ok", "http_error", "network_error", "timeout"}

\* analyzeWebsite(inputUrl): the WebsiteAnalysisResult; every failure of the
\* fetch is caught and reported in the result's `error` field
analyzeWebsite(url, fetch) ==
    [ url |-> url,
      title |-> IF fetch = "ok" THEN "Painter" ELSE "",
      error |-> CASE fetch = "ok" -> None
                  [] fetch = "http_error" -> Some("HTTP 503")
                  [] fetch = "timeout" -> Some("Timeout (10s)")
                  [] OTHER -> Some("fetch failed") ]

\* formatWebsiteForPrompt(analysis): the text block, as its lines
formatWebsiteForPrompt(analysis) ==
    IF analysis.error # None
    THEN << "Website: ", analysis.url, "Error fetching: ", analysis.error[1],
            "Note: Could not analyze the website. Provide general recommendations." >>
    ELSE << "Website: ", analysis.url, "Page Title: ", analysis.title,
            "Service Pages: NONE FOUND" >>

\* analyzeWebsite(url).then(formatWebsiteForPrompt): the page content, or the
\* note that stands for a fetch that analyzeWebsite reported in `error`
WebsiteContents ==
    { Some(formatWebsiteForPrompt(analyzeWebsite("https://painter.example", fetch))) :
        fetch \in WebsiteFetches }

BranchOutcomes(b) ==
    {Rejected} \cup
    { Fulfilled(v) : v \in CASE b = "competitors" -> CompetitorLists
                             [] b = "serp" -> SerpLists
                             [] b = "crm" -> CrmSnapshots
                             [] OTHER -> WebsiteContents }

\* the .catch attached to each branch in analyze: [] or null, both <<>> here
CatchBranch(outcome) ==
    IF outcome.st = "rejected" THEN <<>> ELSE outcome.val

\* what GoogleAdsKeywordPlannerProvider.getKeywordData can do
PlannerKeywordLists ==
    { <<>>,
      << [keyword |-> <<"interior painter">>, monthlySearches |-> 880, avgCpc |-> 1234,
          competition |-> "high", service |-> "interior painting", city |-> None] >> }

PlannerOutcomes(source) ==
    CASE source \in {"planner", "composed"} ->
            {Rejected} \cup { Fulfilled(k) : k \in PlannerKeywordLists }
      [] source = "planner_unconfigured" -> {Rejected, Fulfilled(<<>>)}
      [] OTHER -> {Fulfilled(<<>>)}

\* the MarketDataProvider main() builds, applied to one outcome of the planner:
\*   "planner", "planner_unconfigured"  the planner alone
\*   "composed"   the planner, resorting to the estimates when it is empty or throws
\*   "estimates"  the estimates alone
\* a wiring in which the composed provider is the planner alone
getKeywordDataNoFallback(source, services, cities, factor, planner) ==
    CASE source \in {"planner", "planner_unconfigured", "composed"} -> planner
      [] OTHER -> Fulfilled(EstimateKeywordData(services, cities, factor))

getKeywordData(source, services, cities, factor, planner) ==
    CASE source \in {"planner", "planner_unconfigured"} -> planner
      [] source = "composed" ->
            IF planner.st = "fulfilled" /\ Len(planner.val) > 0
            THEN planner
            ELSE Fulfilled(EstimateKeywordData(services, cities, factor))
      [] OTHER -> Fulfilled(EstimateKeywordData(services, cities, factor))


(***************************************************************************)
(* The reasoning engine.  A chat completion either fails or carries a      *)
(* content string; JSON.parse turns the string into an object or throws.   *)
(* A JSON object is a record whose fields are None when the key is absent. *)
(***************************************************************************)
AnalysisJson(avgCpc) ==
    [ summary |-> Some("Moderately competitive market"),
      competitionLevel |-> Some("medium"),
      marketInsight |-> Some("Demand peaks in spring"),
      websiteAnalysis |-> None,
      serviceOpportunities |->
          Some(<< [service |-> "interior painting", avgCpc |-> avgCpc,
                   monthlySearches |-> 880, competition |-> "medium"] >>),
      competitorSnapshots |-> Some(<< [name |-> "Acme Painting", reviewCount |-> 120] >>),
      recommendedCities |-> Some(<< [city |-> "San Diego"] >>),
      budgetRecommendation |-> Some([dailyMin |-> 3 * avgCpc, dailyMax |-> 8 * avgCpc]) ]

\* valid JSON that lacks serviceOpportunities, budgetRecommendation and others
PartialAnalysisJson ==
    [ summary |-> Some("Moderately competitive market"),
      competitionLevel |-> None, marketInsight |-> None, websiteAnalysis |-> None,
      serviceOpportunities |-> None, competitorSnapshots |-> None,
      recommendedCities |-> None, budgetRecommendation |-> None ]

\* average CPCs, in cents, the engine may put in its answer
LlmCpcs == {0, 900, 1500}

Campaign(cpc) ==
    [ name |-> "Interior Painting - San Diego", service |-> "interior painting",
      targetCity |-> "San Diego", dailyBudget |-> 50,
      keywords |-> << [keyword |-> "interior painter", matchType |-> "PHRASE"] >>,
      negativeKeywords |-> None,
      adCopy |-> Some("Trusted Interior Painters"),
      estimatedClicksPerDay |-> 4, estimatedCostPerClick |-> cpc ]

PlanJson(cpc) ==
    [ campaigns |-> Some(<<Campaign(cpc)>>), summary |-> Some("One campaign per service") ]

\* valid JSON that lacks the campaigns array
PlanJsonNoCampaigns ==
    [ campaigns |-> None, summary |-> Some("One campaign per service") ]

\* valid JSON whose campaign lacks its ad copy and whose summary is absent
PlanJsonPartial ==
    [ campaigns |-> Some(<< [Campaign(1500) EXCEPT !.adCopy = None] >>), summary |-> None ]

Completion(st, content, json) == [st |-> st, content |-> content, json |-> json]

LlmCompletions(kind) ==
    { Completion("rejected", "", None), Completion("fulfilled", "", None),
      Completion("fulfilled", "not json", None) }
    \cup
    { Completion("fulfilled", "json", Some(j)) :
        j \in IF kind = "synthesizeMarketAnalysis"
              THEN { AnalysisJson(c) : c \in LlmCpcs \ {900} } \cup {PartialAnalysisJson}
              ELSE { PlanJson(c) : c \in LlmCpcs \ {0} }
                   \cup {PlanJsonNoCampaigns, PlanJsonPartial} }

\* the end of synthesizeMarketAnalysis and of generateCampaignPlan:
\*   const content = response.choices[0]?.message?.content;
\*   if (!content) throw new Error('LLM returned empty response');
\*   return JSON.parse(content) as ...;
\* The result is the parsed object, or the message of the error thrown.
ParseCompletion(c) ==
    IF c.st = "rejected" THEN [ok |-> FALSE, error |-> "OpenAI request failed", json |-> None]
    ELSE IF c.content = "" THEN [ok |-> FALSE, error |-> "LLM returned empty response", json |-> None]
    ELSE IF c.json = None THEN [ok |-> FALSE, error |-> "Unexpected token in JSON", json |-> None]
    ELSE [ok |-> TRUE, error |-> "", json |-> c.json]

\* the CPC guidance synthesizeMarketAnalysis derives from the keyword data
RECURSIVE PositiveCpcs(_)
PositiveCpcs(keywords) ==
    IF keywords = <<>> THEN <<>>
    ELSE (IF Head(keywords).avgCpc > 0 THEN <<Head(keywords).avgCpc>> ELSE <<>>)
         \o PositiveCpcs(Tail(keywords))

CpcGuidance(keywords) ==
    LET cpcValues == PositiveCpcs(keywords)
        hasKeywordData == Len(cpcValues) > 0
    IN [ hasKeywordData |-> hasKeywordData,
         avgCpc |-> IF hasKeywordData
                    THEN Some(RoundDiv(SumSeq(cpcValues), Len(cpcValues)))
                    ELSE None ]


(***************************************************************************)
(* MarketAnalysisService.analyze behind POST /api/analyze                  *)
(***************************************************************************)
\* a provenance list that names every provider whatever it returned
getDataSourcesUsedAll(keywordCount, competitorCount, serpCount, hasCrm) ==
    <<"google_ads_keyword_planner", "google_places", "serper_serp", "crm_data", "openai_llm">>

\* getDataSourcesUsed(keywordCount, competitorCount, serpCount, hasCrm)
getDataSourcesUsed(keywordCount, competitorCount, serpCount, hasCrm) ==
    (IF keywordCount > 0 THEN <<"google_ads_keyword_planner">> ELSE <<>>)
    \o (IF competitorCount > 0 THEN <<"google_places">> ELSE <<>>)
    \o (IF serpCount > 0 THEN <<"serper_serp">> ELSE <<>>)
    \o (IF hasCrm THEN <<"crm_data">> ELSE <<>>)
    \o <<"openai_llm">>

\* the route's catch block
AnalysisFailed(q, message) ==
    Respond(q, 500, [error |-> "Market analysis failed", message |-> message])

\* the handler up to the first await of analyze: validation, then the four
\* parallel branches are started (the website one only when a URL was given)
AnalyzePost(r) ==
    /\ rq[r].pc = "handler"
    /\ rq[r].route = "POST /api/analyze"
    /\ LET q == rq[r]
           body == q.body
       IN rq' = [rq EXCEPT ![r] =
            IF body.zipCode = "" \/ Len(body.services) = 0
            THEN Respond(q, 400, [error |-> "Missing required fields: zipCode and services[]"])
            ELSE [q EXCEPT !.pc = "branches",
                           !.work = @ \cup {"analyze", "provider"},
                           !.branch = [b \in ParallelBranches |->
                                IF b = "website" /\ body.websiteUrl = None
                                THEN [st |-> "fulfilled", raw |-> None, val |-> None]
                                ELSE Pending]]]
    /\ UNCHANGED <<devBypass, keywordSource, usageLog, analyses, plans, marketFactor, probe, keywordPlanner>>

\* a branch without its .catch: the rejection reaches the route's catch block
SettleBranchUncaught(q, b, outcome) ==
    IF outcome.st = "rejected"
    THEN AnalysisFailed(q, "provider error")
    ELSE [q EXCEPT !.branch[b] = [st |-> outcome.st, raw |-> outcome.val,
                                  val |-> outcome.val]]

\* one branch promise settles; a rejection is caught and becomes [] or null
SettleBranchAs(q, b, outcome) ==
    [q EXCEPT !.branch[b] = [st |-> outcome.st, raw |-> outcome.val,
                             val |-> CatchBranch(outcome)]]

SettleBranch(r, b) ==
    /\ rq[r].pc = "branches"
    /\ rq[r].branch[b].st = "pending"
    /\ \E outcome \in BranchOutcomes(b) :
         rq' = [rq EXCEPT ![r] = SettleBranchAs(rq[r], b, outcome)]
    /\ UNCHANGED <<devBypass, keywordSource, usageLog, analyses, plans, marketFactor, probe, keywordPlanner>>

\* Promise.all has resolved; await marketData.getKeywordData(...).catch(() => [])
SettleKeywordsAs(q, outcome) ==
    [q EXCEPT !.kwSt = outcome.st, !.kwRaw = outcome.val,
               !.keywords = CatchBranch(outcome), !.pc = "synthesize"]

\* a race in place of Promise.all: resolved as soon as one branch has settled
PromiseAnySettled(q) ==
    \E b \in ParallelBranches : q.branch[b].st \in {"fulfilled", "rejected"}

\* await Promise.all([...]): resolved once each of the four caught branches has settled
PromiseAllSettled(q) ==
    \A b \in ParallelBranches : q.branch[b].st \in {"fulfilled", "rejected"}

KeywordData(r) ==
    /\ rq[r].pc = "branches"
    /\ PromiseAllSettled(rq[r])
    /\ \E planner \in PlannerOutcomes(keywordSource) :
         rq' = [rq EXCEPT ![r] =
            SettleKeywordsAs([rq[r] EXCEPT !.plannerOutcome = Some(planner)],
                getKeywordData(keywordSource, rq[r].body.services,
                               rq[r].body.targetCities, marketFactor, planner))]
    /\ UNCHANGED <<devBypass, keywordSource, usageLog, analyses, plans, marketFactor, probe, keywordPlanner>>

\* const llmInput = {...}
AnalysisLlmInput(q) ==
    [ services |-> q.body.services, zipCode |-> q.body.zipCode,
      keywords |-> q.keywords,
      competitors |-> q.branch["competitors"].val,
      serpResults |-> q.branch["serp"].val,
      crmData |-> q.branch["crm"].val,
      websiteUrl |-> q.body.websiteUrl,
      websiteContent |-> q.branch["website"].val ]

\* Step 5 of analyze: the MarketAnalysis object, before its id is attached
AssembleAnalysis(llmOutput, input) ==
    [ overview |-> [ summary |-> llmOutput.summary,
                     competitionLevel |-> llmOutput.competitionLevel,
                     marketInsight |-> llmOutput.marketInsight,
                     websiteAnalysis |-> llmOutput.websiteAnalysis ],
      serviceOpportunities |-> llmOutput.serviceOpportunities,
      competitors |-> llmOutput.competitorSnapshots,
      recommendedCities |-> llmOutput.recommendedCities,
      budgetRecommendation |-> llmOutput.budgetRecommendation,
      dataSourcesUsed |-> getDataSourcesUsed(Len(input.keywords), Len(input.competitors),
                                             Len(input.serpResults), input.crmData # None),
      id |-> None ]

\* a synthesis step that degrades to a stub analysis when the engine fails
OnSynthesisDegraded(q, parsed, input) ==
    LET json == IF parsed.ok THEN parsed.json ELSE Some(PartialAnalysisJson)
    IN [q EXCEPT !.result = Some(AssembleAnalysis(json[1], input)), !.pc = "save"]

\* what analyze does with the outcome of llm.synthesizeMarketAnalysis(llmInput)
OnSynthesis(q, parsed, input) ==
    IF parsed.ok
    THEN [q EXCEPT !.llmOutput = parsed.json,
                   !.result = Some(AssembleAnalysis(parsed.json[1], input)),
                   !.pc = "save"]
    ELSE AnalysisFailed(q, parsed.error)

SynthesizeMarketAnalysis(r) ==
    /\ rq[r].pc = "synthesize"
    /\ \E completion \in LlmCompletions("synthesizeMarketAnalysis") :
         LET input == AnalysisLlmInput(rq[r])
             q == [rq[r] EXCEPT !.work = @ \cup {"llm"},
                                !.llmCalls = Append(@, [kind |-> "synthesizeMarketAnalysis",
                                                        input |-> input,
                                                        guidance |-> CpcGuidance(input.keywords)])]
         IN rq' = [rq EXCEPT ![r] = OnSynthesis(q, ParseCompletion(completion), input)]
    /\ UNCHANGED <<devBypass, keywordSource, usageLog, analyses, plans, marketFactor, probe, keywordPlanner>>


(***************************************************************************)
(* Writes (db.ts).  An insert succeeds, or returns an error, which the     *)
(* functions log, or the call throws (none of the three functions and      *)
(* neither service wraps it in a try).  A null id is 0.                    *)
(***************************************************************************)
DbWrites == {"ok", "error", "throw"}

AnalysisRow(id, auth, request, resultData) ==
    [ id |-> id, account_id |-> auth.accountId, user_id |-> auth.userId,
      request_data |-> request, result_data |-> resultData ]

PlanRow(id, auth, analysisId, planData) ==
    [ id |-> id, account_id |-> auth.accountId, user_id |-> auth.userId,
      analysis_id |-> analysisId, plan_data |-> planData ]

\* saveMarketAnalysis: the table afterwards and the id returned (when it returns)
saveMarketAnalysis(table, auth, request, resultData, write) ==
    IF write # "ok"
    THEN [table |-> table, id |-> 0]
    ELSE [table |-> Append(table, AnalysisRow(Len(table) + 1, auth, request, resultData)),
          id |-> Len(table) + 1]

\* saveCampaignPlan: the table afterwards and the id returned (when it returns)
saveCampaignPlan(table, auth, analysisId, planData, write) ==
    IF write # "ok"
    THEN [table |-> table, id |-> 0]
    ELSE [table |-> Append(table, PlanRow(Len(table) + 1, auth, analysisId, planData)),
          id |-> Len(table) + 1]

\* a logUsageEvent that inserts its event twice
logUsageEventTwice(log, auth, eventType, write) ==
    IF write # "ok" THEN log
    ELSE Append(Append(log, UsageEvent(auth, eventType)), UsageEvent(auth, eventType))

\* logUsageEvent: the ledger afterwards
logUsageEvent(log, auth, eventType, write) ==
    IF write # "ok" THEN log ELSE Append(log, UsageEvent(auth, eventType))

\* the plan route's catch block
PlanFailed(q, message) ==
    Respond(q, 500, [error |-> "Plan generation failed", message |-> message])

SaveMarketAnalysis(r) ==
    /\ rq[r].pc = "save"
    /\ rq[r].route = "POST /api/analyze"
    /\ \E write \in DbWrites :
         LET saved == saveMarketAnalysis(analyses, rq[r].auth, rq[r].body,
                                         rq[r].result[1], write)
             q == [rq[r] EXCEPT !.work = @ \cup {"row"}]
         IN IF write = "throw"
            THEN /\ analyses' = analyses
                 /\ rq' = [rq EXCEPT ![r] = AnalysisFailed(q, "database unreachable")]
            ELSE /\ analyses' = saved.table
                 /\ rq' = [rq EXCEPT ![r] = [q EXCEPT !.savedId = saved.id, !.pc = "log"]]
    /\ UNCHANGED <<devBypass, keywordSource, usageLog, plans, marketFactor, probe, keywordPlanner>>

SaveCampaignPlan(r) ==
    /\ rq[r].pc = "save"
    /\ rq[r].route = "POST /api/plan"
    /\ \E write \in DbWrites :
         LET saved == saveCampaignPlan(plans, rq[r].auth, rq[r].body.analysisId,
                                       rq[r].result[1], write)
             q == [rq[r] EXCEPT !.work = @ \cup {"row"}]
         IN IF write = "throw"
            THEN /\ plans' = plans
                 /\ rq' = [rq EXCEPT ![r] = PlanFailed(q, "database unreachable")]
            ELSE /\ plans' = saved.table
                 /\ rq' = [rq EXCEPT ![r] = [q EXCEPT !.savedId = saved.id, !.pc = "log"]]
    /\ UNCHANGED <<devBypass, keywordSource, usageLog, analyses, marketFactor, probe, keywordPlanner>>

\* the rest of analyze / generatePlan and of the route handler: the usage event,
\* the id attached to the object, res.json({ success: true, data }); a throw
\* of logUsageEvent leaves the service and reaches the route's catch block
LogUsageEvent(r) ==
    /\ rq[r].pc = "log"
    /\ \E write \in DbWrites :
         LET eventType == IF rq[r].route = "POST /api/analyze"
                          THEN "market_analysis" ELSE "plan_generation"
             q == [rq[r] EXCEPT
                     !.work = @ \cup {"ledger"},
                     !.logged = Append(@, [event |-> UsageEvent(rq[r].auth, eventType),
                                           write |-> write])]
             data == [q.result[1] EXCEPT !.id = Some(q.savedId)]
         IN /\ usageLog' = logUsageEvent(usageLog, q.auth, eventType, write)
            /\ rq' = [rq EXCEPT ![r] =
                  IF write = "throw"
                  THEN IF q.route = "POST /api/analyze"
                       THEN AnalysisFailed(q, "database unreachable")
                       ELSE PlanFailed(q, "database unreachable")
                  ELSE Respond([q EXCEPT !.result = Some(data)],
                               200, [success |-> TRUE, data |-> data])]
    /\ UNCHANGED <<devBypass, keywordSource, analyses, plans, marketFactor, probe, keywordPlanner>>

(***************************************************************************)
(* PlanGenerationService.generatePlan behind POST /api/plan                *)
(***************************************************************************)
\* a load that does not scope the row to the caller's account
LoadAnalysisById(table, analysisId, accountId) ==
    SelectSeq(table, LAMBDA row : row.id = analysisId)

\* db.from('growth_market_analyses').select('result_data')
\*   .eq('id', analysisId).eq('account_id', accountId).single()
\* The rows matched; .single() yields data only when there is exactly one.
LoadAnalysis(table, analysisId, accountId) ==
    SelectSeq(table, LAMBDA row : row.id = analysisId /\ row.account_id = accountId)

\* a plan load that does not scope the row to the caller's account
LoadPlanById(table, planId, accountId) ==
    SelectSeq(table, LAMBDA row : row.id = planId)

\* db.from('growth_campaign_plans').select('id, analysis_id, plan_data, created_at')
\*   .eq('id', planId).eq('account_id', accountId).single()
LoadPlan(table, planId, accountId) ==
    SelectSeq(table, LAMBDA row : row.id = planId /\ row.account_id = accountId)

DbReads == {"ok", "error"}

\* a plan input whose service numbers are not the stored ones
PlanLlmInputRecomputed(marketAnalysis, request) ==
    [ marketAnalysis |->
        [ summary |-> OrElse(marketAnalysis.overview.summary, ""),
          serviceOpportunities |-> <<>>,
          competitors |-> OrElse(marketAnalysis.competitors, <<>>),
          budgetRecommendation |-> marketAnalysis.budgetRecommendation ],
      selectedServices |-> request.selectedServices,
      selectedCities |-> request.selectedCities,
      dailyBudget |-> request.dailyBudget,
      hardCap |-> request.hardCap,
      phoneNumber |-> request.phoneNumber ]

\* const llmInput = {...}: the stored numbers, with the source's defaults for
\* absent fields ('' and []; an absent budget recommendation, {}, stays None)
PlanLlmInput(marketAnalysis, request) ==
    [ marketAnalysis |->
        [ summary |-> OrElse(marketAnalysis.overview.summary, ""),
          serviceOpportunities |-> OrElse(marketAnalysis.serviceOpportunities, <<>>),
          competitors |-> OrElse(marketAnalysis.competitors, <<>>),
          budgetRecommendation |-> marketAnalysis.budgetRecommendation ],
      selectedServices |-> request.selectedServices,
      selectedCities |-> request.selectedCities,
      dailyBudget |-> request.dailyBudget,
      hardCap |-> request.hardCap,
      phoneNumber |-> request.phoneNumber ]


\* the handler up to the end of Step 1 of generatePlan: validation, then the
\* stored analysis is loaded by id within the caller's account
PlanPost(r) ==
    /\ rq[r].pc = "handler"
    /\ rq[r].route = "POST /api/plan"
    /\ \E read \in DbReads :
         LET q == rq[r]
             body == q.body
             found == IF read = "error" THEN <<>>
                      ELSE LoadAnalysis(analyses, body.analysisId, q.auth.accountId)
         IN rq' = [rq EXCEPT ![r] =
              IF body.analysisId = 0 \/ Len(body.selectedServices) = 0
                 \/ Len(body.selectedCities) = 0
              THEN Respond(q, 400, [error |->
                     "Missing required fields: analysisId, selectedServices[], selectedCities[]"])
              ELSE IF body.dailyBudget = 0 \/ body.hardCap = 0
              THEN Respond(q, 400, [error |-> "Missing required fields: dailyBudget, hardCap"])
              ELSE IF Len(found) # 1
              THEN PlanFailed([q EXCEPT !.work = @ \cup {"generatePlan"}],
                              "Market analysis not found")
              ELSE [q EXCEPT !.work = @ \cup {"generatePlan"},
                             !.source = Some(found[1].result_data),
                             !.pc = "planLlm"]]
    /\ UNCHANGED <<devBypass, keywordSource, usageLog, analyses, plans, marketFactor, probe, keywordPlanner>>

\* llmOutput.campaigns.map(c => ({...}))
AssembleCampaign(c) ==
    [ name |-> c.name, service |-> c.service, targetCity |-> c.targetCity,
      dailyBudget |-> c.dailyBudget, keywords |-> c.keywords,
      negativeKeywords |-> OrElse(c.negativeKeywords, <<>>),
      adCopy |-> c.adCopy,
      estimatedClicksPerDay |-> c.estimatedClicksPerDay,
      estimatedCostPerClick |-> c.estimatedCostPerClick ]

\* Step 4 of generatePlan: the CampaignPlan object, before its id is attached
AssemblePlan(request, llmOutput) ==
    [ analysisId |-> request.analysisId,
      campaigns |-> [i \in DOMAIN llmOutput.campaigns[1] |->
                        AssembleCampaign(llmOutput.campaigns[1][i])],
      totalDailyBudget |-> request.dailyBudget,
      hardCap |-> request.hardCap,
      summary |-> llmOutput.summary,
      id |-> None ]

\* what generatePlan does with the outcome of llm.generateCampaignPlan(llmInput);
\* .map on an absent campaigns array is a TypeError
OnPlanGenerated(q, parsed) ==
    IF ~parsed.ok THEN PlanFailed(q, parsed.error)
    ELSE IF parsed.json[1].campaigns = None
    THEN PlanFailed([q EXCEPT !.llmOutput = parsed.json],
                    "Cannot read properties of undefined (reading 'map')")
    ELSE [q EXCEPT !.llmOutput = parsed.json,
                   !.result = Some(AssemblePlan(q.body, parsed.json[1])),
                   !.pc = "save"]

GenerateCampaignPlan(r) ==
    /\ rq[r].pc = "planLlm"
    /\ \E completion \in LlmCompletions("generateCampaignPlan") :
         LET input == PlanLlmInput(rq[r].source[1], rq[r].body)
             q == [rq[r] EXCEPT !.work = @ \cup {"llm"},
                                !.llmCalls = Append(@, [kind |-> "generateCampaignPlan",
                                                        input |-> input])]
         IN rq' = [rq EXCEPT ![r] = OnPlanGenerated(q, ParseCompletion(completion))]
    /\ UNCHANGED <<devBypass, keywordSource, usageLog, analyses, plans, marketFactor, probe, keywordPlanner>>

(***************************************************************************)
(* Read-back routes                                                        *)
(***************************************************************************)
GetAnalysis(r) ==
    /\ rq[r].pc = "handler"
    /\ rq[r].route = "GET /api/analyze/:id"
    /\ \E read \in DbReads \cup {"throw"} :
         LET found == IF read = "ok"
                      THEN LoadAnalysis(analyses, rq[r].body.id, rq[r].auth.accountId)
                      ELSE <<>>
         IN rq' = [rq EXCEPT ![r] =
              IF read = "throw"
              THEN Respond(rq[r], 500, [error |-> "Failed to retrieve analysis"])
              ELSE IF Len(found) # 1
              THEN Respond(rq[r], 404, [error |-> "Analysis not found"])
              ELSE Respond(rq[r], 200,
                     [success |-> TRUE,
                      data |-> [found[1].result_data EXCEPT !.id = Some(found[1].id)]])]
    /\ UNCHANGED <<devBypass, keywordSource, usageLog, analyses, plans, marketFactor, probe, keywordPlanner>>

GetPlan(r) ==
    /\ rq[r].pc = "handler"
    /\ rq[r].route = "GET /api/plan/:id"
    /\ \E read \in DbReads \cup {"throw"} :
         LET found == IF read = "ok"
                      THEN LoadPlan(plans, rq[r].body.id, rq[r].auth.accountId)
                      ELSE <<>>
         IN rq' = [rq EXCEPT ![r] =
              IF read = "throw"
              THEN Respond(rq[r], 500, [error |-> "Failed to retrieve plan"])
              ELSE IF Len(found) # 1
              THEN Respond(rq[r], 404, [error |-> "Plan not found"])
              ELSE Respond(rq[r], 200,
                     [success |-> TRUE,
                      data |-> [found[1].plan_data EXCEPT !.id = Some(found[1].id),
                                                          !.analysisId = found[1].analysis_id]])]
    /\ UNCHANGED <<devBypass, keywordSource, usageLog, analyses, plans, marketFactor, probe, keywordPlanner>>


(***************************************************************************)
(* GoogleAdsKeywordPlannerProvider (providers/google-ads-keyword-planner.ts)*)
(* One provider instance serves every request: its geoTargetCache is       *)
(* shared by the getKeywordData calls in flight.  A call runs without      *)
(* interruption from one await to the next.                                *)
(***************************************************************************)
US_GEO_TARGET == "geoTargetConstants/2840"

PlannerCalls == {1, 2}

PlannerCityNames == {"San Diego", "La Jolla"}

\* resource names the resolution service knows for a city
GeoNames(city) ==
    IF city = "San Diego"
    THEN {"geoTargetConstants/1014221", "geoTargetConstants/9031351"}
    ELSE {"geoTargetConstants/1013962"}

\* what suggestGeoTargetConstants can do for one city: throw, give no
\* suggestion, give a suggestion without resource_name, or give a name
GeoSuggestionOutcomes(city) ==
    {Rejected, Fulfilled(None), Fulfilled(Some(""))}
    \cup { Fulfilled(Some(n)) : n \in GeoNames(city) }

\* the ideas generateKeywordIdeas answers for a service: one with metrics, one
\* without metrics, one with zero volume and CPC, one that names a city
KeywordIdeas(service) ==
    << [text |-> <<service, "near me">>,
        metrics |-> Some([average_cpc_micros |-> 12340000,
                          avg_monthly_searches |-> 880, competition |-> "HIGH"])],
       [text |-> <<service, "ideas">>, metrics |-> None],
       [text |-> <<service, "free">>,
        metrics |-> Some([average_cpc_micros |-> 0,
                          avg_monthly_searches |-> 0, competition |-> "LOW"])],
       [text |-> <<service, "San Diego">>,
        metrics |-> Some([average_cpc_micros |-> 15005000,
                          avg_monthly_searches |-> 90, competition |-> "UNSPECIFIED"])] >>

\* what generateKeywordIdeas can do for one service
KeywordIdeaOutcomes(service) ==
    {Rejected, Fulfilled(<<>>), Fulfilled(KeywordIdeas(service))}

\* mapCompetition
mapCompetition(level) ==
    CASE level = "LOW" -> "low"
      [] level = "MEDIUM" -> "medium"
      [] level = "HIGH" -> "high"
      [] OTHER -> "medium"

\* microsToDollars, in cents: Math.round((num / 1_000_000) * 100) / 100
microsToDollars(micros) ==
    IF micros = 0 THEN 0 ELSE RoundDiv(micros, 10000)

\* cities.find(city => keyword.toLowerCase().includes(city.toLowerCase()))
MatchedCity(text, cities) ==
    LET hits == SelectSeq(cities, LAMBDA city : \E i \in DOMAIN text : text[i] = city)
    IN IF Len(hits) = 0 THEN None ELSE Some(hits[1])

\* the body of `for (const idea of response.results)`
RECURSIVE IdeasToKeywords(_, _, _)
IdeasToKeywords(ideas, service, cities) ==
    IF ideas = <<>> THEN <<>>
    ELSE LET idea == Head(ideas)
             rest == IdeasToKeywords(Tail(ideas), service, cities)
         IN IF idea.metrics = None THEN rest
            ELSE LET avgCpc == microsToDollars(idea.metrics[1].average_cpc_micros)
                     monthlySearches == idea.metrics[1].avg_monthly_searches
                 IN IF monthlySearches = 0 /\ avgCpc = 0 THEN rest
                    ELSE << [keyword |-> idea.text,
                             monthlySearches |-> monthlySearches,
                             avgCpc |-> avgCpc,
                             competition |-> mapCompetition(idea.metrics[1].competition),
                             service |-> service,
                             city |-> MatchedCity(idea.text, cities)] >> \o rest

\* a getKeywordData call: its arguments, its locals, the requests it has made
\* (suggestCalls, ideaCalls), what they answered, and how it ended
IdleCall ==
    [ pc |-> "idle", services |-> <<>>, cities |-> <<>>,
      i |-> 1, resolved |-> <<>>, geoTargetConstants |-> <<>>,
      j |-> 1, results |-> <<>>,
      suggestCalls |-> <<>>, suggestions |-> <<>>,
      ideaCalls |-> <<>>, ideas |-> <<>>,
      returned |-> None, threw |-> FALSE ]

IdlePlanner ==
    [ geoTargetCache |-> [city \in PlannerCityNames |-> None],
      calls |-> [k \in PlannerCalls |-> IdleCall] ]

\* the service loop from service j on: the next generateKeywordIdeas request
\* is made, or the loop is over and the results are returned
FetchFrom(c) ==
    IF c.j > Len(c.services)
    THEN [c EXCEPT !.pc = "returned", !.returned = Some(c.results)]
    ELSE [c EXCEPT !.pc = "ideas",
                   !.ideaCalls = Append(@, [service |-> c.services[c.j],
                                            geo_target_constants |-> c.geoTargetConstants])]

\* resolveGeoTargets from city i on, then the start of the service loop: a
\* cached city is taken from the cache without a request; the first city that
\* is not cached is asked of suggestGeoTargetConstants
RECURSIVE ResolveFrom(_, _)
ResolveFrom(c, cache) ==
    IF c.i > Len(c.cities)
    THEN FetchFrom([c EXCEPT !.geoTargetConstants =
                        IF Len(c.resolved) > 0 THEN c.resolved ELSE <<US_GEO_TARGET>>])
    ELSE IF cache[c.cities[c.i]] # None
    THEN ResolveFrom([c EXCEPT !.resolved = Append(@, cache[c.cities[c.i]][1]),
                               !.i = @ + 1], cache)
    ELSE [c EXCEPT !.pc = "geo", !.suggestCalls = Append(@, c.cities[c.i])]

\* the resource name of the first suggestion, when the answer has one
ResourceName(outcome) ==
    IF outcome.st = "fulfilled" /\ outcome.val # None /\ outcome.val[1] # ""
    THEN outcome.val ELSE None

\* a cache written with whatever the first suggestion holds
CacheSetUnchecked(cache, city, outcome) ==
    IF outcome.st = "fulfilled" /\ outcome.val # None
    THEN [cache EXCEPT ![city] = outcome.val]
    ELSE cache

\* if (resourceName) { this.geoTargetCache.set(city, resourceName); ... }
CacheSet(cache, city, outcome) ==
    IF ResourceName(outcome) # None
    THEN [cache EXCEPT ![city] = ResourceName(outcome)]
    ELSE cache

\* a service loop whose catch block throws the error on
AfterIdeasRethrow(c, outcome) ==
    LET c1 == [c EXCEPT !.ideas = Append(@, outcome), !.j = @ + 1]
    IN IF outcome.st = "rejected"
       THEN [c1 EXCEPT !.pc = "returned", !.threw = TRUE]
       ELSE FetchFrom([c1 EXCEPT !.results =
                @ \o IdeasToKeywords(outcome.val, c.services[c.j], c.cities)])

\* one iteration of the service loop once generateKeywordIdeas has settled:
\* its keywords are appended, or the error is logged; then the next service
AfterIdeas(c, outcome) ==
    LET c1 == [c EXCEPT !.ideas = Append(@, outcome), !.j = @ + 1]
    IN IF outcome.st = "rejected"
       THEN FetchFrom(c1)
       ELSE FetchFrom([c1 EXCEPT !.results =
                @ \o IdeasToKeywords(outcome.val, c.services[c.j], c.cities)])

PlannerServices == { <<"interior painting">>, <<"interior painting", "deck staining">> }
PlannerCities == { <<>>, <<"San Diego">>, <<"San Diego", "La Jolla">> }

\* getKeywordData(services, cities, _state) up to its first request
PlannerGetKeywordData(k) ==
    /\ keywordPlanner.calls[k].pc = "idle"
    /\ \E services \in PlannerServices, cities \in PlannerCities :
         keywordPlanner' = [keywordPlanner EXCEPT !.calls[k] =
            ResolveFrom([IdleCall EXCEPT !.services = services, !.cities = cities],
                        keywordPlanner.geoTargetCache)]
    /\ UNCHANGED <<devBypass, keywordSource, usageLog, analyses, plans, marketFactor,
                   rq, probe>>

\* suggestGeoTargetConstants settles for city i of call k
SuggestGeoTargetConstants(k) ==
    /\ keywordPlanner.calls[k].pc = "geo"
    /\ LET c == keywordPlanner.calls[k]
           city == c.cities[c.i]
       IN \E outcome \in GeoSuggestionOutcomes(city) :
            LET cache == CacheSet(keywordPlanner.geoTargetCache, city, outcome)
                c1 == [c EXCEPT !.suggestions = Append(@, outcome),
                                !.resolved = @ \o ResourceName(outcome),
                                !.i = @ + 1]
            IN keywordPlanner' = [keywordPlanner EXCEPT !.geoTargetCache = cache,
                                          !.calls[k] = ResolveFrom(c1, cache)]
    /\ UNCHANGED <<devBypass, keywordSource, usageLog, analyses, plans, marketFactor,
                   rq, probe>>

\* generateKeywordIdeas settles for service j of call k
GenerateKeywordIdeas(k) ==
    /\ keywordPlanner.calls[k].pc = "ideas"
    /\ LET c == keywordPlanner.calls[k]
       IN \E outcome \in KeywordIdeaOutcomes(c.services[c.j]) :
            keywordPlanner' = [keywordPlanner EXCEPT !.calls[k] = AfterIdeas(c, outcome)]
    /\ UNCHANGED <<devBypass, keywordSource, usageLog, analyses, plans, marketFactor,
                   rq, probe>>


\* no call made yet on the provider, in the shape of the records below
IdleProbe ==
    [ op |-> "none", competitorCount |-> 0, avgReviewCount |-> 0, factor |-> 0,
      services |-> <<>>, cities |-> <<>>, factorAt |-> 0, keywords |-> <<>>,
      prev |-> None ]

(***************************************************************************)
(* Initial states: the deployment (environment flag, provider wiring), and *)
(* a database that earlier requests have left behind.                      *)
(***************************************************************************)
KeywordSources == {"planner", "planner_unconfigured", "composed", "estimates"}

Account1 == [accountId |-> "acct1", userId |-> "user1"]
Account2 == [accountId |-> "acct2", userId |-> "user2"]

RECURSIVE Events(_, _, _)
Events(n, auth, month) ==
    IF n = 0 THEN <<>>
    ELSE << [UsageEvent(auth, "market_analysis") EXCEPT !.created_at = month] >>
         \o Events(n - 1, auth, month)

\* n events of account 1 this month, among one of last month and one of account 2
\* (the first of the n is a plan generation, the others are analyses)
Ledger(n) ==
    Events(1, Account1, "last_month")
    \o (IF n = 0 THEN <<>>
        ELSE <<UsageEvent(Account1, "plan_generation")>>
             \o Events(n - 1, Account1, "this_month"))
    \o Events(1, Account2, "this_month")

LedgerCounts ==
    {0, DEFAULT_MONTHLY_QUOTA - 1, DEFAULT_MONTHLY_QUOTA, DEFAULT_MONTHLY_QUOTA + 1}

\* an analysis stored by an earlier request that had gathered no provider data
StoredAnalysis(avgCpc) ==
    AssembleAnalysis(AnalysisJson(avgCpc),
                     [keywords |-> <<>>, competitors |-> <<>>,
                      serpResults |-> <<>>, crmData |-> None])

StoredRequest ==
    [zipCode |-> "92101", services |-> <<"interior painting">>,
     targetCities |-> <<>>, websiteUrl |-> None]

InitialAnalyses ==
    << AnalysisRow(1, Account1, StoredRequest, StoredAnalysis(1500)),
       AnalysisRow(2, Account2, StoredRequest, StoredAnalysis(0)) >>

InitialPlans ==
    << PlanRow(1, Account1, 1,
               AssemblePlan([analysisId |-> 1, dailyBudget |-> 50, hardCap |-> 1200],
                            PlanJson(1500))) >>

Init ==
    /\ \E n \in LedgerCounts :
         /\ usageLog = Ledger(n)
         /\ \/ /\ n = 0
               /\ devBypass = FALSE
               /\ keywordSource \in KeywordSources
            \/ /\ n # 0
               /\ devBypass = FALSE
               /\ keywordSource = "planner"
            \/ /\ n \in {0, DEFAULT_MONTHLY_QUOTA}
               /\ devBypass = TRUE
               /\ keywordSource = "planner"
    /\ analyses = InitialAnalyses
    /\ plans = InitialPlans
    /\ marketFactor = DEFAULT_MARKET_FACTOR
    /\ rq = [r \in Slots |-> IdleRequest]
    /\ probe = IdleProbe
    /\ keywordPlanner = IdlePlanner

Next ==
    \E r \in Slots :
        \/ Receive(r)
        \/ UsageMiddleware(r)
        \/ QuotaRoute(r)
        \/ AnalyzePost(r)
        \/ \E b \in ParallelBranches : SettleBranch(r, b)
        \/ KeywordData(r)
        \/ SynthesizeMarketAnalysis(r)
        \/ SaveMarketAnalysis(r)
        \/ PlanPost(r)
        \/ GenerateCampaignPlan(r)
        \/ SaveCampaignPlan(r)
        \/ LogUsageEvent(r)
        \/ GetAnalysis(r)
        \/ GetPlan(r)

Spec == Init /\ [][Next]_vars


(***************************************************************************)
(* The Market Estimate Interpolator on its own: calculateMarketFactor,     *)
(* setMarketFactor and getKeywordData called in any order with any         *)
(* arguments of the sets below.  `probe` keeps the last call of            *)
(* calculateMarketFactor, or the last two calls of getKeywordData.         *)
(***************************************************************************)
FactorSteps == 4

\* factors 0, 1/FactorSteps, ..., 1, in thousandths
FactorGrid == { (i * 1000) \div FactorSteps : i \in 0..FactorSteps }

\* arguments of setMarketFactor: the grid, and values outside [0, 1]
FactorArgs == FactorGrid \cup {-500, 1500}

CompetitorCounts == {-5, 0, 20}
ReviewAverages == {-100, 0, 400}

EstimatorServices == { <<"interior painting">>, <<"pressure washing">> }
EstimatorCities == { <<>>, <<"San Diego", "La Jolla">> }

CalculateMarketFactor ==
    /\ \E c \in CompetitorCounts, a \in ReviewAverages :
         probe' = [IdleProbe EXCEPT !.op = "calculateMarketFactor",
                                    !.competitorCount = c, !.avgReviewCount = a,
                                    !.factor = calculateMarketFactor(c, a)]
    /\ UNCHANGED <<devBypass, keywordSource, usageLog, analyses, plans, marketFactor, rq, keywordPlanner>>

\* setMarketFactor with an argument of FactorArgs, or with the factor just computed
SetMarketFactor ==
    /\ \E f \in FactorArgs \cup (IF probe.op = "calculateMarketFactor"
                                  THEN {probe.factor} ELSE {}) :
         marketFactor' = setMarketFactor(f)
    /\ UNCHANGED <<devBypass, keywordSource, usageLog, analyses, plans, rq, probe, keywordPlanner>>

GetKeywordData ==
    /\ \E services \in EstimatorServices, cities \in EstimatorCities :
         LET call == EstimatorGetKeywordData(marketFactor, services, cities)
             last == [services |-> probe.services, cities |-> probe.cities,
                      factorAt |-> probe.factorAt, keywords |-> probe.keywords]
         IN /\ probe' = [IdleProbe EXCEPT
                            !.op = "getKeywordData",
                            !.services = services, !.cities = cities,
                            !.factorAt = marketFactor, !.keywords = call.keywords,
                            !.prev = IF probe.op = "getKeywordData"
                                     THEN Some(last) ELSE None]
            /\ marketFactor' = call.marketFactor
    /\ UNCHANGED <<devBypass, keywordSource, usageLog, analyses, plans, rq, keywordPlanner>>

InitEstimator ==
    /\ devBypass = FALSE
    /\ keywordSource = "estimates"
    /\ usageLog = Ledger(0)
    /\ analyses = InitialAnalyses
    /\ plans = InitialPlans
    /\ marketFactor = DEFAULT_MARKET_FACTOR
    /\ rq = [r \in Slots |-> IdleRequest]
    /\ probe = IdleProbe
    /\ keywordPlanner = IdlePlanner

NextEstimator ==
    \/ CalculateMarketFactor
    \/ SetMarketFactor
    \/ GetKeywordData

SpecEstimator == InitEstimator /\ [][NextEstimator]_vars


(***************************************************************************)
(* The GoogleAdsKeywordPlannerProvider on its own: one instance, and the   *)
(* getKeywordData calls of concurrent requests interleaved at their awaits.*)
(***************************************************************************)
InitPlanner ==
    /\ devBypass = FALSE
    /\ keywordSource = "planner"
    /\ usageLog = Ledger(0)
    /\ analyses = InitialAnalyses
    /\ plans = InitialPlans
    /\ marketFactor = DEFAULT_MARKET_FACTOR
    /\ rq = [r \in Slots |-> IdleRequest]
    /\ probe = IdleProbe
    /\ keywordPlanner = IdlePlanner

NextPlanner ==
    \E k \in PlannerCalls :
        \/ PlannerGetKeywordData(k)
        \/ SuggestGeoTargetConstants(k)
        \/ GenerateKeywordIdeas(k)

SpecPlanner == InitPlanner /\ [][NextPlanner]_vars


(***************************************************************************)
(* Concurrent gated requests.  Express runs each request's middleware and  *)
(* handler up to an await and then serves the others, so the quota read of *)
(* one request can fall between the quota read and the ledger write of     *)
(* another.  Between its gate and its ledger write a request touches the   *)
(* ledger nowhere, so analyze is taken here from the handler's start to    *)
(* the primary write in one step.                                          *)
(***************************************************************************)
ConcurrentSlots == {1, 2}

\* the auth middleware for a POST /api/analyze with a valid body
ReceiveAnalyze(r) ==
    /\ rq[r].pc = "idle"
    /\ \E auth \in AuthContexts :
         \E body \in { b \in AnalyzeBodies : b.zipCode # "" /\ Len(b.services) > 0 } :
           rq' = [rq EXCEPT ![r] =
                    [rq[r] EXCEPT !.route = "POST /api/analyze", !.body = body,
                                  !.auth = auth, !.pc = "usage"]]
    /\ UNCHANGED <<devBypass, keywordSource, usageLog, analyses, plans, marketFactor,
                   probe, keywordPlanner>>

\* analyze from Step 1 to the primary write: synthesis fails and the route
\* answers 500, or the analysis is assembled and saveMarketAnalysis is called
Analyze(r) ==
    /\ rq[r].pc = "handler"
    /\ rq[r].route = "POST /api/analyze"
    /\ \E completion \in LlmCompletions("synthesizeMarketAnalysis"), write \in DbWrites :
         LET input == [keywords |-> <<>>, competitors |-> <<>>,
                       serpResults |-> <<>>, crmData |-> None]
             parsed == ParseCompletion(completion)
             q == [rq[r] EXCEPT !.work = @ \cup {"analyze", "provider", "llm"}]
         IN IF ~parsed.ok
            THEN /\ rq' = [rq EXCEPT ![r] = AnalysisFailed(q, parsed.error)]
                 /\ analyses' = analyses
            ELSE LET result == AssembleAnalysis(parsed.json[1], input)
                     saved == saveMarketAnalysis(analyses, q.auth, q.body, result, write)
                 IN IF write = "throw"
                    THEN /\ rq' = [rq EXCEPT ![r] =
                                     AnalysisFailed(q, "database unreachable")]
                         /\ analyses' = analyses
                    ELSE /\ rq' = [rq EXCEPT ![r] =
                                     [q EXCEPT !.llmOutput = parsed.json,
                                               !.result = Some(result),
                                               !.savedId = saved.id,
                                               !.work = @ \cup {"row"},
                                               !.pc = "log"]]
                         /\ analyses' = saved.table
    /\ UNCHANGED <<devBypass, keywordSource, usageLog, plans, marketFactor, probe,
                   keywordPlanner>>

\* the month has one operation left for account 1
InitConcurrent ==
    /\ devBypass = FALSE
    /\ keywordSource = "planner"
    /\ usageLog = Ledger(DEFAULT_MONTHLY_QUOTA - 1)
    /\ analyses = InitialAnalyses
    /\ plans = InitialPlans
    /\ marketFactor = DEFAULT_MARKET_FACTOR
    /\ rq = [r \in ConcurrentSlots |-> IdleRequest]
    /\ probe = IdleProbe
    /\ keywordPlanner = IdlePlanner

NextConcurrent ==
    \E r \in ConcurrentSlots :
        \/ ReceiveAnalyze(r)
        \/ UsageMiddleware(r)
        \/ Analyze(r)
        \/ LogUsageEvent(r)

SpecConcurrent == InitConcurrent /\ [][NextConcurrent]_vars

(***************************************************************************)
(* Properties                                                              *)
(***************************************************************************)
Range(seq) == { seq[i] : i \in DOMAIN seq }
Answered(q, status) == q.pc = "done" /\ q.response[1].status = status
Denied(q) == q.response # None /\ q.response[1].status = 429
MeteredRoutes == {"POST /api/analyze", "POST /api/plan"}

\* C1: when the gate's ledger read fails, by a database error or by throwing,
\* the request to POST /api/analyze or POST /api/plan is denied: the gate
\* reports remaining = 0, answers 429, and the service is never entered.
C1_LedgerReadFailureDenies ==
    \A r \in Slots :
        LET q == rq[r]
        IN (q.route \in MeteredRoutes /\ q.quotaRead \in {"error", "throw"})
           => /\ Answered(q, 429)
              /\ q.quota # None
              /\ q.quota[1].remaining = 0
              /\ q.work = {}

\* C2: for every ledger count `used` of the account, the quota the gate gets
\* has limit 10 and remaining = max(0, limit - used), and whenever remaining
\* is 0 the call is answered 429 with the metadata
\* {used, limit, resetsAt = periodEnd}.
C2_QuotaArithmeticAndDenial ==
    \A r \in Slots :
        LET q == rq[r]
        IN q.quotaRead = "ok" =>
             LET quota == q.quota[1]
             IN /\ quota.limit = 10
                /\ quota.remaining = Max(0, quota.limit - quota.used)
                /\ "ledger" \notin q.work
                     => quota.used = CountUsage(usageLog, q.auth.accountId)
                /\ quota.remaining = 0
                     => /\ q.pc = "done"
                        /\ q.response = Some([status |-> 429,
                             body |-> [error |-> "Monthly analysis quota exceeded",
                                       quota |-> [used |-> quota.used,
                                                  limit |-> quota.limit,
                                                  resetsAt |-> quota.periodEnd]]])
                /\ quota.remaining > 0 => ~Denied(q)

C2_Witness ==
    \E r \in Slots :
        /\ rq[r].quotaRead = "ok"
        /\ rq[r].quota[1].used = 10
        /\ rq[r].quota[1].remaining = 0
        /\ Answered(rq[r], 429)

\* C3: a request the gate denies does no expensive work: no provider call, no
\* reasoning-engine call, no analysis or plan row, no usage event; the service
\* is never entered.
C3_DeniedDoesNoWork ==
    /\ [](\A r \in Slots :
            Denied(rq[r]) =>
              /\ rq[r].pc = "done"
              /\ rq[r].work = {}
              /\ rq[r].llmCalls = <<>>
              /\ \A b \in ParallelBranches : rq[r].branch[b].st = "idle"
              /\ rq[r].kwSt = "idle"
              /\ rq[r].result = None)
    /\ [][(\A r \in Slots : Denied(rq[r])')
             => UNCHANGED <<usageLog, analyses, plans>>]_vars

C3_Witness ==
    \E r \in Slots :
        /\ Denied(rq[r])
        /\ rq[r].route \in MeteredRoutes
        /\ rq[r].auth = Account1
        /\ CountUsage(usageLog, "acct1") > 10

C5_HonestProvenance ==
    \A r \in Slots :
        LET q == rq[r]
        IN (q.route = "POST /api/analyze" /\ q.result # None) =>
             LET used == q.result[1].dataSourcesUsed
                 gotKeywords == q.kwSt = "fulfilled" /\ Len(q.kwRaw) > 0
                 gotCompetitors == /\ q.branch["competitors"].st = "fulfilled"
                                   /\ Len(q.branch["competitors"].raw) > 0
                 gotSerp == /\ q.branch["serp"].st = "fulfilled"
                            /\ Len(q.branch["serp"].raw) > 0
                 gotCrm == /\ q.branch["crm"].st = "fulfilled"
                           /\ q.branch["crm"].raw # None
             IN /\ "google_ads_keyword_planner" \in Range(used) => gotKeywords
                /\ "google_places" \in Range(used) => gotCompetitors
                /\ "serper_serp" \in Range(used) => gotSerp
                /\ "crm_data" \in Range(used) => gotCrm
                /\ "openai_llm" \in Range(used)
                /\ ~(gotKeywords \/ gotCompetitors \/ gotSerp \/ gotCrm)
                     => used = <<"openai_llm">>

C5_Witness ==
    \E r \in Slots :
        /\ rq[r].route = "POST /api/analyze"
        /\ Answered(rq[r], 200)
        /\ \A b \in ParallelBranches : rq[r].branch[b].st = "rejected"
        /\ rq[r].kwSt = "rejected"
        /\ rq[r].response[1].body.data.dataSourcesUsed = <<"openai_llm">>

\* C6: for services = ["interior painting"], targetCities = [], no configured
\* authoritative keyword source and zero competitors found, the keyword data
\* handed to synthesis is the interpolator's output at market factor 0, and
\* dataSourcesUsed omits the keyword-provider and competitor-provider names and
\* includes the reasoning-engine name.
C6_ScenarioA ==
    \A r \in Slots :
        LET q == rq[r]
        IN ( /\ q.route = "POST /api/analyze"
             /\ q.body.services = <<"interior painting">>
             /\ q.body.targetCities = <<>>
             /\ keywordSource \in {"planner_unconfigured", "estimates"}
             /\ q.branch["competitors"].val = <<>>
             /\ Len(q.llmCalls) = 1 )
           => /\ q.llmCalls[1].input.keywords
                   = EstimateKeywordData(<<"interior painting">>, <<>>, 0)
              /\ q.result # None
                   => /\ "google_ads_keyword_planner"
                            \notin Range(q.result[1].dataSourcesUsed)
                      /\ "google_places" \notin Range(q.result[1].dataSourcesUsed)
                      /\ "openai_llm" \in Range(q.result[1].dataSourcesUsed)

\* the reasoning engine was called and gave nothing that parses
LlmFailed(q) == Len(q.llmCalls) > 0 /\ q.llmOutput = None

\* C7: when the reasoning engine's call fails or its response is empty or
\* unparseable, analyze / generatePlan fails with that error: no row is
\* written, no usage event is appended, the caller gets a failure response.
C7_SynthesisHasNoFallback ==
    /\ [](\A r \in Slots :
            LlmFailed(rq[r]) =>
              /\ Answered(rq[r], 500)
              /\ rq[r].response[1].body.message
                   \in {"OpenAI request failed", "LLM returned empty response",
                        "Unexpected token in JSON"}
              /\ rq[r].result = None
              /\ rq[r].savedId = 0
              /\ rq[r].work \cap {"row", "ledger"} = {})
    /\ [][(\A r \in Slots : LlmFailed(rq[r])')
             => UNCHANGED <<usageLog, analyses, plans>>]_vars

C7_Witness ==
    \E r \in Slots :
        /\ LlmFailed(rq[r])
        /\ rq[r].route = "POST /api/analyze"
        /\ rq[r].response # None
        /\ rq[r].response[1].body.message = "Unexpected token in JSON"

\* the shapes of MarketAnalysis and CampaignPlan: every required key present
WellShapedAnalysis(a) ==
    /\ a.overview.summary # None
    /\ a.overview.competitionLevel # None
    /\ a.overview.marketInsight # None
    /\ a.serviceOpportunities # None
    /\ a.competitors # None
    /\ a.recommendedCities # None
    /\ a.budgetRecommendation # None

WellShapedPlan(p) ==
    /\ p.summary # None
    /\ \A i \in DOMAIN p.campaigns : p.campaigns[i].adCopy # None

\* C8: a response that is valid JSON of the wrong shape is rejected before any
\* of it is persisted or returned: every analysis row, every plan row and every
\* object returned by analyze or generatePlan has the expected shape.
C8_WrongShapeRejected ==
    /\ \A i \in DOMAIN analyses : WellShapedAnalysis(analyses[i].result_data)
    /\ \A i \in DOMAIN plans : WellShapedPlan(plans[i].plan_data)
    /\ \A r \in Slots :
         rq[r].result # None
           => IF rq[r].route = "POST /api/analyze"
              THEN WellShapedAnalysis(rq[r].result[1])
              ELSE WellShapedPlan(rq[r].result[1])

OwnsAnalysis(accountId, id) ==
    \E i \in DOMAIN analyses :
        analyses[i].id = id /\ analyses[i].account_id = accountId

NotFound(q) ==
    /\ q.route = "POST /api/plan"
    /\ "generatePlan" \in q.work
    /\ ~OwnsAnalysis(q.auth.accountId, q.body.analysisId)

\* C9: a plan request whose analysisId does not exist, or belongs to another
\* account, fails as not found before the reasoning engine is called: no
\* analysis data is read into the plan input, no plan row is written, no usage
\* event is appended; and an analysis that is read belongs to the caller.
C9_PlanLoadIsAccountScoped ==
    /\ [](\A r \in Slots :
            /\ NotFound(rq[r]) =>
                 /\ Answered(rq[r], 500)
                 /\ rq[r].response[1].body.message = "Market analysis not found"
                 /\ rq[r].llmCalls = <<>>
                 /\ rq[r].source = None
                 /\ rq[r].result = None
                 /\ rq[r].work = {"generatePlan"}
            /\ rq[r].source # None =>
                 \E i \in DOMAIN analyses :
                     /\ analyses[i].id = rq[r].body.analysisId
                     /\ analyses[i].account_id = rq[r].auth.accountId
                     /\ analyses[i].result_data = rq[r].source[1])
    /\ [][(\A r \in Slots : NotFound(rq[r])')
             => UNCHANGED <<usageLog, analyses, plans>>]_vars

C9_Witness ==
    \E r \in Slots :
        /\ NotFound(rq[r])
        /\ rq[r].auth = Account1
        /\ rq[r].body.analysisId = 2
        /\ rq[r].pc = "done"

CpcConsistent(plan, analysis) ==
    \A i \in DOMAIN plan.campaigns :
        \A j \in DOMAIN OrElse(analysis.serviceOpportunities, <<>>) :
            analysis.serviceOpportunities[1][j].service = plan.campaigns[i].service
              => plan.campaigns[i].estimatedCostPerClick
                   = analysis.serviceOpportunities[1][j].avgCpc

\* C10: in every plan persisted or returned by generatePlan, each campaign's
\* estimatedCostPerClick equals the avgCpc of the same service's opportunity in
\* the analysis the plan's analysisId refers to.
C10_PlanCpcMatchesAnalysis ==
    /\ \A i \in DOMAIN plans :
         \A k \in DOMAIN analyses :
             analyses[k].id = plans[i].analysis_id
               => CpcConsistent(plans[i].plan_data, analyses[k].result_data)
    /\ \A r \in Slots :
         (rq[r].route = "POST /api/plan" /\ rq[r].result # None)
           => CpcConsistent(rq[r].result[1], rq[r].source[1])


\* C11: when the primary write of an analysis or of a plan fails, the failure
\* reaches the caller: no successful response carries a missing (null) id.
C11_PrimaryWriteFailurePropagates ==
    \A r \in Slots :
        (rq[r].route \in MeteredRoutes /\ Answered(rq[r], 200))
          => /\ rq[r].savedId # 0
             /\ rq[r].response[1].body.data.id # Some(0)

\* C12: a failure of the usage-ledger write, by a database error or by a throw
\* of logUsageEvent, never keeps the computed and persisted result from the
\* caller, and the write is attempted once only.
C12_LedgerWriteFailureDoesNotBlock ==
    \A r \in Slots :
        LET q == rq[r]
        IN (Len(q.logged) > 0 /\ q.logged[1].write \in {"error", "throw"})
           => /\ Len(q.logged) = 1
              /\ Answered(q, 200)
              /\ q.response[1].body.data = [q.result[1] EXCEPT !.id = Some(q.savedId)]

EventTypeOf(route) ==
    IF route = "POST /api/analyze" THEN "market_analysis" ELSE "plan_generation"

\* C13: a call of analyze / generatePlan that completes attempts to append
\* exactly one usage event, of type market_analysis / plan_generation, for the
\* caller's account and user, after synthesis succeeded and after the
\* persistence write was attempted; the ledger changes in no other way, so a
\* call that fails earlier appends nothing.
C13_OneUsageEventPerCompletedCall ==
    /\ [](\A r \in Slots :
            LET q == rq[r]
            IN /\ Len(q.logged) <= 1
               /\ (q.route \in MeteredRoutes /\ Answered(q, 200)) => Len(q.logged) = 1
               /\ Len(q.logged) = 1 =>
                    /\ q.route \in MeteredRoutes
                    /\ q.logged[1].event =
                         [account_id |-> q.auth.accountId, user_id |-> q.auth.userId,
                          event_type |-> EventTypeOf(q.route),
                          created_at |-> "this_month"]
                    /\ q.llmOutput # None
                    /\ Len(q.llmCalls) = 1
                    /\ "row" \in q.work)
    /\ [][usageLog' # usageLog =>
            \E r \in Slots :
                /\ rq[r].logged = <<>>
                /\ Len(rq'[r].logged) = 1
                /\ usageLog' = Append(usageLog, rq'[r].logged[1].event)]_vars

C13_Witness ==
    \E r \in Slots :
        /\ rq[r].route = "POST /api/plan"
        /\ Answered(rq[r], 200)
        /\ rq[r].logged[1].write = "ok"
        /\ usageLog[Len(usageLog)].event_type = "plan_generation"
        /\ usageLog[Len(usageLog)].account_id = rq[r].auth.accountId

\* C14: the ledger never overcounts: no usage event is recorded for an
\* operation whose primary row was not stored.
C14_LedgerNeverOvercounts ==
    \A r \in Slots :
        (Len(rq[r].logged) > 0 /\ rq[r].logged[1].write = "ok")
          => rq[r].savedId # 0


\* C15: the market factor is always in [0, 1]: calculateMarketFactor returns a
\* value in [0, 1] for every input, negative and very large counts included,
\* and the factor getKeywordData uses is in [0, 1] after any sequence of
\* setMarketFactor calls.
C15_MarketFactorInUnitInterval ==
    /\ probe.op = "calculateMarketFactor" => (0 <= probe.factor /\ probe.factor <= 1000)
    /\ 0 <= marketFactor /\ marketFactor <= 1000
    /\ probe.op = "getKeywordData" => (0 <= probe.factorAt /\ probe.factorAt <= 1000)

\* every city-qualified keyword of the list follows from its base keyword by
\* the volume fraction 0.20 + 0.15 f and the CPC uplift 1.15
CityVariantsFollowBase(keywords, f) ==
    \A i \in DOMAIN keywords :
        keywords[i].city # None =>
          \E j \in DOMAIN keywords :
              LET k == keywords[i]
                  base == keywords[j]
              IN /\ base.city = None
                 /\ base.service = k.service
                 /\ base.keyword = SubSeq(k.keyword, 1, Len(k.keyword) - 1)
                 /\ k.monthlySearches
                      = RoundDiv(base.monthlySearches * (200000 + 150 * f), 1000000)
                 /\ 20 * base.monthlySearches <= 100 * k.monthlySearches
                 /\ 100 * k.monthlySearches <= 35 * base.monthlySearches
                 /\ k.avgCpc = RoundDiv(base.avgCpc * 115, 100)

\* C16: for every service, with a known template or generic, and every factor
\* f in [0, 1], each city-qualified keyword has
\* monthlySearches = round(baseVolume x (0.20 + 0.15 f)), a fraction in
\* [0.20, 0.35] of the base volume, and avgCpc = base CPC x 1.15 rounded to cents.
C16_CityVariants ==
    probe.op = "getKeywordData" => CityVariantsFollowBase(probe.keywords, probe.factorAt)

\* the CPC and volume ranges of the templates and of the generic estimates
EstimateRanges ==
    { SERVICE_ESTIMATES[k].cpcRange : k \in DOMAIN SERVICE_ESTIMATES }
    \cup { SERVICE_ESTIMATES[k].volumeRange : k \in DOMAIN SERVICE_ESTIMATES }
    \cup { <<8, 20>>, <<80, 400>> }

\* C17: for any fixed range [lo, hi] and f1 <= f2 in [0, 1], the interpolated
\* CPC and volume at f1 are at most those at f2, rounding included; the value
\* at f = 0 is lo and at f = 1 is hi.  The same holds of the base keywords
\* that two calls of getKeywordData return for the same services.
C17_InterpolationMonotone ==
    /\ \A rng \in EstimateRanges :
         /\ \A f1 \in FactorGrid :
              f1 <= marketFactor =>
                /\ interpolate(rng, f1) <= interpolate(rng, marketFactor)
                /\ RoundDiv(interpolate(rng, f1), 100)
                     <= RoundDiv(interpolate(rng, marketFactor), 100)
         /\ marketFactor = 0 => interpolate(rng, marketFactor) = 100 * rng[1]
         /\ marketFactor = 1000 => interpolate(rng, marketFactor) = 100 * rng[2]
    /\ ( /\ probe.op = "getKeywordData"
         /\ probe.prev # None
         /\ probe.prev[1].services = probe.services
         /\ probe.prev[1].cities = probe.cities
         /\ probe.prev[1].factorAt <= probe.factorAt )
       => \A i \in DOMAIN probe.keywords :
              /\ probe.prev[1].keywords[i].avgCpc <= probe.keywords[i].avgCpc
              /\ probe.keywords[i].city = None
                   => probe.prev[1].keywords[i].monthlySearches
                        <= probe.keywords[i].monthlySearches

C17_Witness ==
    /\ probe.op = "getKeywordData"
    /\ probe.services = <<"interior painting">>
    /\ probe.prev # None
    /\ probe.prev[1].services = probe.services
    /\ probe.prev[1].cities = probe.cities
    /\ probe.prev[1].factorAt = 0
    /\ probe.factorAt = 1000
    /\ probe.prev[1].keywords[1].avgCpc = 800
    /\ probe.keywords[1].avgCpc = 2200
    /\ probe.prev[1].keywords[1].monthlySearches = 300
    /\ probe.keywords[1].monthlySearches = 1800

SameCall(a, b) ==
    a.services = b.services /\ a.cities = b.cities /\ a.factorAt = b.factorAt

C19_BranchOrdering ==
    /\ [](\A r \in Slots :
            rq[r].route = "POST /api/analyze" =>
              /\ rq[r].kwSt # "idle"
                   => \A b \in ParallelBranches :
                          rq[r].branch[b].st \in {"fulfilled", "rejected"}
              /\ Len(rq[r].llmCalls) > 0 => rq[r].kwSt \in {"fulfilled", "rejected"}
              /\ (\E b \in ParallelBranches : rq[r].branch[b].st # "idle")
                   => \A b \in ParallelBranches : rq[r].branch[b].st # "idle")
    /\ [][\A r \in Slots :
            /\ (rq[r].kwSt = "idle" /\ rq'[r].kwSt # "idle")
                 => \A b \in ParallelBranches :
                        rq[r].branch[b].st \in {"fulfilled", "rejected"}
            /\ (rq[r].route = "POST /api/analyze"
                   /\ Len(rq'[r].llmCalls) > Len(rq[r].llmCalls))
                 => rq[r].kwSt \in {"fulfilled", "rejected"}
            /\ \A b \in ParallelBranches :
                 (rq[r].branch[b].st = "pending" /\ rq'[r].branch[b].st # "pending")
                   => rq[r].kwSt = "idle"]_vars

\* the SERP branch has settled while the competitor branch, listed before it,
\* is still pending, and the keyword branch has not been started
C19_Witness ==
    \E r \in Slots :
        /\ rq[r].route = "POST /api/analyze"
        /\ rq[r].branch["serp"].st = "rejected"
        /\ rq[r].branch["crm"].st = "fulfilled"
        /\ rq[r].branch["competitors"].st = "pending"
        /\ rq[r].kwSt = "idle"
        /\ rq[r].llmCalls = <<>>

\* the mean review count of a competitor list, 0 for the empty list
AvgReviewCount(competitors) ==
    IF Len(competitors) = 0 THEN 0
    ELSE RoundDiv(SumSeq([i \in DOMAIN competitors |-> competitors[i].reviewCount]),
                  Len(competitors))

\* the keyword list of the request came from the interpolator
UsedEstimates(q) ==
    /\ q.route = "POST /api/analyze"
    /\ keywordSource \in {"composed", "estimates"}
    /\ q.kwSt = "fulfilled"
    /\ q.kwRaw \notin PlannerKeywordLists

\* C20: when the authoritative keyword provider is unavailable or returns
\* nothing in a request, the market factor used for that request's
\* interpolated estimates is the one computed from that request's competitor
\* results (their count and average review count), not a default.
C20_FactorFromOwnCompetitors ==
    \A r \in Slots :
        LET q == rq[r]
            competitors == q.branch["competitors"].val
        IN UsedEstimates(q)
           => q.keywords
                = EstimateKeywordData(q.body.services, q.body.targetCities,
                      setMarketFactor(calculateMarketFactor(Len(competitors),
                                                            AvgReviewCount(competitors))))

\* every monetary and volume field of an analysis is zero or absent
NoFabricatedNumbers(a) ==
    /\ a.serviceOpportunities # None
         => \A i \in DOMAIN a.serviceOpportunities[1] :
                /\ a.serviceOpportunities[1][i].avgCpc = 0
                /\ a.serviceOpportunities[1][i].monthlySearches = 0
    /\ a.budgetRecommendation # None
         => /\ a.budgetRecommendation[1].dailyMin = 0
            /\ a.budgetRecommendation[1].dailyMax = 0

\* C21: when no keyword datum with a positive CPC reaches synthesis, every
\* monetary and volume field of the analysis that is persisted and returned
\* (service avgCpc and monthlySearches, the daily budget) is zero or null.
C21_AbsentKeywordsGiveNoNumbers ==
    \A r \in Slots :
        LET q == rq[r]
        IN ( /\ q.route = "POST /api/analyze"
             /\ Len(q.llmCalls) = 1
             /\ ~q.llmCalls[1].guidance.hasKeywordData
             /\ q.result # None )
           => NoFabricatedNumbers(q.result[1])

\* the rows of a table with the requested id that the caller's account owns
OwnRows(q, table) ==
    { i \in DOMAIN table :
        table[i].id = q.body.id /\ table[i].account_id = q.auth.accountId }

\* a read-back answers 200 only with a row of the caller's account; for any
\* other id the answer carries no data, and a 404 is the one fixed body
ReadBackScoped(q, table, payload(_), notFound) ==
    q.response # None =>
        LET resp == q.response[1]
        IN /\ resp.status = 200
                => \E i \in OwnRows(q, table) : resp.body.data = payload(table[i])
           /\ OwnRows(q, table) = {}
                => /\ resp.status # 200
                   /\ "data" \notin DOMAIN resp.body
           /\ resp.status = 404 => resp.body = [error |-> notFound]

\* C22: read-back by identifier returns a row only if the row's account_id is
\* the caller's accountId; for an id of another account the response is the
\* same 404 as for an id that does not exist and holds none of that
\* account's data.
C22_ReadBackIsAccountScoped ==
    \A r \in Slots :
        LET q == rq[r]
        IN /\ q.route = "GET /api/analyze/:id"
                => ReadBackScoped(q, analyses,
                       LAMBDA row : [row.result_data EXCEPT !.id = Some(row.id)],
                       "Analysis not found")
           /\ q.route = "GET /api/plan/:id"
                => ReadBackScoped(q, plans,
                       LAMBDA row : [row.plan_data EXCEPT !.id = Some(row.id),
                                                          !.analysisId = row.analysis_id],
                       "Plan not found")

\* account 2 asks for plan 1, which account 1 owns, and is told 404
C22_Witness ==
    \E r \in Slots :
        /\ rq[r].route = "GET /api/plan/:id"
        /\ rq[r].auth = Account2
        /\ rq[r].body.id = 1
        /\ \E i \in DOMAIN plans : plans[i].id = 1 /\ plans[i].account_id = "acct1"
        /\ Answered(rq[r], 404)

\* the events of one account in the current calendar month, of any type
RECURSIVE MonthEvents(_, _)
MonthEvents(log, accountId) ==
    IF log = <<>> THEN 0
    ELSE (IF Head(log).account_id = accountId /\ Head(log).created_at = "this_month"
          THEN 1 ELSE 0)
         + MonthEvents(Tail(log), accountId)

\* C23 as stated: the `used` count getUsageQuota reports for an account equals
\* the number of ledger events of that account, of any type, created in the
\* current calendar month, and limit is 10: here for each answer of
\* GET /api/quota, whatever the ledger query did.
C23_UsedEqualsMonthEvents ==
    \A r \in Slots :
        (rq[r].route = "GET /api/quota" /\ Answered(rq[r], 200))
          => /\ rq[r].response[1].body.data.used
                  = MonthEvents(usageLog, rq[r].auth.accountId)
             /\ rq[r].response[1].body.data.limit = 10

\* C23, amended: when the ledger query succeeds, `used` equals the number of
\* ledger events of the account, of any type, created in the current calendar
\* month (events of other accounts and earlier months not counted), and limit
\* is 10; when the query returns an error, used = limit = 10 and remaining = 0.
C23_UsedEqualsMonthEventsWhenRead ==
    /\ \A auth \in AuthContexts :
         LET quota == getUsageQuota(usageLog, auth.accountId, "ok")
             failed == getUsageQuota(usageLog, auth.accountId, "error")
         IN /\ quota.used = MonthEvents(usageLog, auth.accountId)
            /\ quota.limit = 10
            /\ failed.used = 10 /\ failed.limit = 10 /\ failed.remaining = 0
    /\ \A r \in Slots :
         /\ (rq[r].quotaRead = "ok" /\ rq[r].logged = <<>>)
              => /\ rq[r].quota[1].used = MonthEvents(usageLog, rq[r].auth.accountId)
                 /\ rq[r].quota[1].limit = 10
         /\ (rq[r].route = "GET /api/quota" /\ Answered(rq[r], 200))
              => LET data == rq[r].response[1].body.data
                 IN /\ data.limit = 10
                    /\ \/ data.used = MonthEvents(usageLog, rq[r].auth.accountId)
                       \/ data.used = 10 /\ data.remaining = 0 /\ data.periodEnd = ""

\* account 1 has nine events this month, one of them a plan generation, one
\* event last month, and account 2 has one: GET /api/quota reports used = 9
C23_Witness ==
    \E r \in Slots :
        /\ rq[r].route = "GET /api/quota"
        /\ rq[r].auth = Account1
        /\ Answered(rq[r], 200)
        /\ rq[r].response[1].body.data.used = 9
        /\ Len(usageLog) = 11
        /\ \E i \in DOMAIN usageLog :
              /\ usageLog[i].event_type = "plan_generation"
              /\ usageLog[i].account_id = "acct1"
              /\ usageLog[i].created_at = "this_month"

\* C24: under any interleaving of concurrent getKeywordData calls the
\* geographic-target cache is append-only and holds only resolved mappings: an
\* entry is never removed, every cached value is a non-empty resource name the
\* resolution service returned for that city, a failed or empty resolution
\* writes nothing, and a cache hit makes no resolution call.
C24_GeoCacheAppendOnlyResolved ==
    /\ [](\A city \in PlannerCityNames :
            keywordPlanner.geoTargetCache[city] # None
              => /\ keywordPlanner.geoTargetCache[city][1] # ""
                 /\ keywordPlanner.geoTargetCache[city][1] \in GeoNames(city)
                 /\ \E k \in PlannerCalls :
                      \E n \in DOMAIN keywordPlanner.calls[k].suggestions :
                          /\ keywordPlanner.calls[k].suggestCalls[n] = city
                          /\ keywordPlanner.calls[k].suggestions[n]
                               = Fulfilled(keywordPlanner.geoTargetCache[city]))
    /\ [][/\ \A city \in PlannerCityNames :
               keywordPlanner.geoTargetCache[city] # None
                 => keywordPlanner'.geoTargetCache[city] # None
          /\ \A k \in PlannerCalls :
               LET c == keywordPlanner.calls[k]
                   d == keywordPlanner'.calls[k]
               IN /\ ( /\ Len(d.suggestions) > Len(c.suggestions)
                       /\ \/ d.suggestions[Len(d.suggestions)].st = "rejected"
                          \/ d.suggestions[Len(d.suggestions)].val \in {None, Some("")} )
                     => keywordPlanner'.geoTargetCache = keywordPlanner.geoTargetCache
                  /\ Len(d.suggestCalls) > Len(c.suggestCalls)
                     => keywordPlanner'.geoTargetCache[d.suggestCalls[Len(d.suggestCalls)]] = None
                  /\ \A n \in DOMAIN d.cities :
                       ( /\ n >= c.i /\ n < d.i
                         /\ ~(c.pc = "geo" /\ n = c.i)
                         /\ c.pc # "idle" \/ d.pc # "idle" )
                       => /\ keywordPlanner'.geoTargetCache[d.cities[n]] # None
                          /\ Len(d.suggestCalls) - Len(c.suggestCalls)
                               <= (IF d.pc = "geo" THEN 1 ELSE 0)]_vars

\* call 2 takes San Diego from the cache that call 1 filled, makes no
\* resolution call for it, and asks for La Jolla, which nobody resolved
C24_Witness ==
    /\ keywordPlanner.calls[1].suggestCalls = <<"San Diego">>
    /\ keywordPlanner.geoTargetCache["San Diego"] # None
    /\ keywordPlanner.geoTargetCache["La Jolla"] = None
    /\ keywordPlanner.calls[2].cities = <<"San Diego", "La Jolla">>
    /\ keywordPlanner.calls[2].suggestCalls = <<"La Jolla">>
    /\ keywordPlanner.calls[2].suggestions = <<Rejected>>
    /\ keywordPlanner.calls[2].resolved = keywordPlanner.geoTargetCache["San Diego"]
    /\ keywordPlanner.calls[2].pc = "returned"

\* the keywords a call must return: those of each service whose fetch gave
\* ideas, in the order of the services
RECURSIVE CollectedKeywords(_, _, _)
CollectedKeywords(services, ideas, cities) ==
    IF services = <<>> \/ ideas = <<>> THEN <<>>
    ELSE (IF Head(ideas).st = "fulfilled"
          THEN IdeasToKeywords(Head(ideas).val, Head(services), cities)
          ELSE <<>>)
         \o CollectedKeywords(Tail(services), Tail(ideas), cities)

\* C25: the planner's getKeywordData never throws for "no data": it returns
\* an empty list when no service yields results, works with an empty city
\* list (the country-level geo target is used), and a failure while fetching
\* one service's ideas neither discards the results already collected nor
\* prevents the fetch of the other services.
C25_PlannerNeverThrowsForNoData ==
    \A k \in PlannerCalls :
        LET c == keywordPlanner.calls[k]
        IN /\ ~c.threw
           /\ c.pc = "returned" =>
                /\ c.returned # None
                /\ Len(c.ideaCalls) = Len(c.services)
                /\ \A n \in DOMAIN c.ideaCalls :
                     /\ c.ideaCalls[n].service = c.services[n]
                     /\ Len(c.ideaCalls[n].geo_target_constants) > 0
                     /\ c.cities = <<>>
                          => c.ideaCalls[n].geo_target_constants = <<US_GEO_TARGET>>
                /\ c.returned[1] = CollectedKeywords(c.services, c.ideas, c.cities)
                /\ (\A n \in DOMAIN c.ideas :
                        c.ideas[n].st = "rejected" \/ c.ideas[n].val = <<>>)
                     => c.returned[1] = <<>>

\* with no cities, the first service's fetch gives two keywords, the second
\* service's fetch fails, and the call returns the two keywords
C25_Witness ==
    \E k \in PlannerCalls :
        LET c == keywordPlanner.calls[k]
        IN /\ c.pc = "returned"
           /\ c.cities = <<>>
           /\ c.services = <<"interior painting", "deck staining">>
           /\ c.ideas[1].st = "fulfilled" /\ Len(c.ideas[1].val) > 0
           /\ c.ideas[2].st = "rejected"
           /\ Len(c.returned[1]) = 2
           /\ c.returned[1][1].avgCpc = 1234
           /\ c.returned[1][2].avgCpc = 1501

\* what the website branch holds after a fetch that failed
FailedFetchNotes ==
    { Some(formatWebsiteForPrompt(analyzeWebsite("https://painter.example", fetch))) :
        fetch \in WebsiteFetches \ {"ok"} }

\* C26: when a website URL is supplied and the fetch fails (HTTP error,
\* network error) or exceeds the 10-second timeout, the website branch
\* resolves to its degraded null value: no website content is passed to
\* synthesis as fetched content, and the failure does not propagate to analyze.
C26_FailedFetchGivesNoContent ==
    \A r \in Slots :
        LET q == rq[r]
        IN ( /\ q.route = "POST /api/analyze"
             /\ q.body.websiteUrl # None
             /\ q.branch["website"].st = "fulfilled"
             /\ q.branch["website"].raw \in FailedFetchNotes )
           => /\ q.branch["website"].val = None
              /\ \A n \in DOMAIN q.llmCalls :
                     q.llmCalls[n].input.websiteContent = None

\* C27: plan derivation for an analysis id reuses that analysis's stored
\* numbers: the serviceOpportunities (with their avgCpc), competitors and
\* budgetRecommendation handed to generateCampaignPlan are those of the
\* persisted analysis row of that id and account, and plan derivation leaves
\* the stored analysis rows unchanged.
C27_PlanReusesStoredAnalysis ==
    /\ [](\A r \in Slots :
            (rq[r].route = "POST /api/plan" /\ Len(rq[r].llmCalls) > 0)
              => \E i \in DOMAIN analyses :
                    LET stored == analyses[i].result_data
                        given == rq[r].llmCalls[1].input.marketAnalysis
                    IN /\ analyses[i].id = rq[r].body.analysisId
                       /\ analyses[i].account_id = rq[r].auth.accountId
                       /\ stored.serviceOpportunities # None
                            => given.serviceOpportunities = stored.serviceOpportunities[1]
                       /\ stored.serviceOpportunities = None
                            => given.serviceOpportunities = <<>>
                       /\ stored.competitors # None
                            => given.competitors = stored.competitors[1]
                       /\ stored.competitors = None => given.competitors = <<>>
                       /\ given.budgetRecommendation = stored.budgetRecommendation)
    /\ [](\A r \in Slots :
            rq[r].route = "POST /api/plan"
              => "provider" \notin rq[r].work /\ "analyze" \notin rq[r].work)
    /\ [][(\A r \in Slots : rq'[r].route = "POST /api/plan")
            => analyses' = analyses]_vars

\* account 1 derives a plan from its analysis 1 and the engine is handed the
\* stored CPC 15.00 and the stored daily budget
C27_Witness ==
    \E r \in Slots :
        /\ rq[r].route = "POST /api/plan"
        /\ rq[r].auth = Account1
        /\ rq[r].body.analysisId = 1
        /\ Len(rq[r].llmCalls) = 1
        /\ rq[r].llmCalls[1].input.marketAnalysis.serviceOpportunities[1].avgCpc = 1500
        /\ rq[r].llmCalls[1].input.marketAnalysis.budgetRecommendation
             = Some([dailyMin |-> 4500, dailyMax |-> 12000])
        /\ Answered(rq[r], 200)
        /\ Len(plans) = 2

\* C29: the composed keyword provider returns the authoritative provider's
\* list whenever that list is non-empty, returns the interpolator's estimates
\* for the same services and cities whenever the authoritative provider
\* returns an empty list or throws, and never throws because of a failure of
\* the authoritative provider.
C29_ComposedProviderFallsBack ==
    \A r \in Slots :
        LET q == rq[r]
        IN (keywordSource = "composed" /\ q.plannerOutcome # None)
           => LET authoritative == q.plannerOutcome[1]
              IN /\ q.kwSt = "fulfilled"
                 /\ (authoritative.st = "fulfilled" /\ Len(authoritative.val) > 0)
                      => q.kwRaw = authoritative.val /\ q.keywords = authoritative.val
                 /\ (authoritative.st = "rejected" \/ Len(authoritative.val) = 0)
                      => /\ q.kwRaw = EstimateKeywordData(q.body.services,
                                          q.body.targetCities, marketFactor)
                         /\ q.keywords = q.kwRaw
                         /\ Len(q.keywords) > 0

\* the planner throws and the request gets the estimates for its service
\* and its city
C29_Witness ==
    \E r \in Slots :
        /\ keywordSource = "composed"
        /\ rq[r].plannerOutcome = Some(Rejected)
        /\ rq[r].body.targetCities = <<"San Diego">>
        /\ rq[r].kwSt = "fulfilled"
        /\ \E n \in DOMAIN rq[r].keywords :
              /\ rq[r].keywords[n].city = Some("San Diego")
              /\ rq[r].keywords[n].service = "interior painting"

ReadOnlyRoutes == {"GET /api/quota", "GET /api/analyze/:id", "GET /api/plan/:id"}

\* C30: read-only requests are independent of the quota: GET /api/quota,
\* GET /api/analyze/:id and GET /api/plan/:id never append a usage event, and a
\* read-back of a stored analysis or plan by its owning account is served
\* even when the account's remaining quota is 0.
C30_ReadsIndependentOfQuota ==
    \A r \in Slots :
        LET q == rq[r]
        IN /\ q.route \in ReadOnlyRoutes
                => q.logged = <<>> /\ "llm" \notin q.work
           /\ ( /\ q.route = "GET /api/analyze/:id"
                /\ OwnRows(q, analyses) # {}
                /\ q.response # None )
                => q.response[1].status # 429
           /\ ( /\ q.route = "GET /api/plan/:id"
                /\ OwnRows(q, plans) # {}
                /\ q.response # None )
                => q.response[1].status # 429

\* the ledger the concurrent requests start from
InitialLedgerOfMonth == Ledger(DEFAULT_MONTHLY_QUOTA - 1)

\* C28: under any interleaving of concurrent gated requests of one account,
\* the number of expensive operations admitted past the quota gate in one
\* calendar month, and hence the number of ledger events of that account in
\* that month, never exceeds the limit of 10: here with every quota read
\* answered by the ledger.
C28_ConcurrentRequestsWithinQuota ==
    (\A r \in DOMAIN rq : rq[r].quotaRead \in {"none", "ok"})
      => \A auth \in AuthContexts :
            /\ MonthEvents(usageLog, auth.accountId) <= 10
            /\ MonthEvents(InitialLedgerOfMonth, auth.accountId)
                 + Cardinality({ r \in DOMAIN rq :
                                   /\ rq[r].auth = auth
                                   /\ "analyze" \in rq[r].work }) <= 10

====
